---- MODULE Spec2Model ----
(***************************************************************************)
(* Model of the Isaac aligner workflow state machine                       *)
(* (src/c++/lib/workflow/AlignWorkflow.cpp) and of the mapping quality     *)
(* functions (src/c++/include/alignment/Quality.hh).                       *)
(***************************************************************************)
EXTENDS Integers, Sequences, FiniteSets, TLC

(***************************************************************************)
(* Bounds of the model                                                     *)
(***************************************************************************)
\* number of calls made on one AlignWorkflow object
MaxCalls == 5
\* alignment scores and mapping qualities 0..MaxSmallScore are among the inputs
MaxSmallScore == 4
\* alignment probabilities are given in units, up to MaxProb of them
MaxProb == 1000
\* the constructor is given coverages, read lengths and fragment sizes up to MaxConfig
MaxConfig == 4
\* contig lists hold up to MaxContigs contigs, at genomic positions up to MaxPosition,
\* of up to MaxBases bases each
MaxContigs == 3
MaxPosition == 3
MaxBases == 2
\* generateBam is called up to MaxBamCalls times
MaxBamCalls == 3
\* the statistics of up to MaxTiles tiles are combined
MaxTiles == 3
\* up to MaxAnnotationCalls annotation calls are made, with k up to MaxK
MaxAnnotationCalls == 4
MaxK == 2
\* the contigs compared have index_ up to MaxContigIndex
MaxContigIndex == 1

(***************************************************************************)
(* AlignWorkflow::State. Finish is a second name of BamDone: step(),       *)
(* getNextState() and cleanupIntermediary() switch on Finish while run()   *)
(* and rewind() use BamDone.                                               *)
(***************************************************************************)
Invalid == "Invalid"
Last == "Last"
Start == "Start"
AlignDone == "AlignDone"
AlignmentReportsDone == "AlignmentReportsDone"
BamDone == "BamDone"
Finish == BamDone

\* the values rewind() can be given
RewindTargets == {Last, Start, AlignDone, AlignmentReportsDone, BamDone}

\* the three phases step() dispatches to
Phases == {"findMatches", "generateAlignmentReports", "generateBam"}

(***************************************************************************)
(* State of one AlignWorkflow object, of the bin files it owns on disk and *)
(* the record of the calls made on it.                                     *)
(*   The results of findMatches and generateBam are represented by the     *)
(* number of the call that produced them, 0 being the value the            *)
(* constructor leaves.                                                     *)
(***************************************************************************)
VARIABLES
    state_,                            \* AlignWorkflow::state_
    sortedReferenceMetadataList_,      \* reference metadata loaded by the constructor
    contigLists_,                      \* contigs loaded by the constructor
    foundMatchesMetadata_,             \* result of findMatches
    selectedMatchesMetadata_,          \* bin metadata list, result of findMatches
    barcodeTemplateLengthStatistics_,  \* result of findMatches
    barcodeBamMapping_,                \* result of generateBam
    binFiles,                          \* the bin files of selectedMatchesMetadata_ exist on disk
    alive,                             \* FALSE once an ISAAC_ASSERT_MSG has terminated the process
    trace,                             \* the calls made so far, one record per call
    qArgs,                             \* arguments given to the functions of Quality.hh
    qRes,                              \* the last application of one of them and its result
    sArgs,                             \* arguments given to isUnique and computeAlignmentScore
    sRes,                              \* the last application of one of them and its result
    cArgs,                             \* arguments given to the constructor of AlignWorkflow
    cRes,                              \* the bin targets the constructor has computed
    rArgs,                             \* arguments given to genomicOffsetToPosition
    rRes,                              \* its result
    bamPc,                             \* the statement of generateBam to execute next, 0 outside it
    mallocBlock,                       \* the ScopedMallocBlock of generateBam is alive
    bamLog,                            \* what the calls of generateBam have done so far
    tiles,                             \* the per-tile MatchFinderTileStats combined so far
    total,                             \* their sum, accumulated with operator +
    annotationFiles_,                  \* SortedReferenceMetadata::annotationFiles_
    annotationCalls,                   \* the annotation calls made on it so far
    eArgs,                             \* the two contigs given to Contig::operator ==
    eRes                               \* the results of comparing them both ways

wfVars == <<state_, sortedReferenceMetadataList_, contigLists_, foundMatchesMetadata_, selectedMatchesMetadata_,
            barcodeTemplateLengthStatistics_, barcodeBamMapping_, binFiles, alive, trace>>

qVars == <<qArgs, qRes>>

sVars == <<sArgs, sRes>>

cVars == <<cArgs, cRes>>

rVars == <<rArgs, rRes>>

bVars == <<bamPc, mallocBlock, bamLog>>

tVars == <<tiles, total>>

aVars == <<annotationFiles_, annotationCalls>>

eVars == <<eArgs, eRes>>

vars == <<state_, sortedReferenceMetadataList_, contigLists_, foundMatchesMetadata_, selectedMatchesMetadata_,
          barcodeTemplateLengthStatistics_, barcodeBamMapping_, binFiles, alive, trace,
          qArgs, qRes, sArgs, sRes, cArgs, cRes, rArgs, rRes, bamPc, mallocBlock, bamLog,
          tiles, total, annotationFiles_, annotationCalls, eArgs, eRes>>

\* what the constructor loads: the sorted reference metadata and the contigs
loadSortedReferenceXml == "sortedReferenceMetadataList"

loadContigs == "contigLists"

\* the object as a record, for the operators below
This ==
    [state_ |-> state_,
     sortedReferenceMetadataList_ |-> sortedReferenceMetadataList_,
     contigLists_ |-> contigLists_,
     foundMatchesMetadata_ |-> foundMatchesMetadata_,
     selectedMatchesMetadata_ |-> selectedMatchesMetadata_,
     barcodeTemplateLengthStatistics_ |-> barcodeTemplateLengthStatistics_,
     barcodeBamMapping_ |-> barcodeBamMapping_,
     binFiles |-> binFiles]

\* the state after construction: state_(Start), dummy found matches, no bins
InitWorkflow ==
    /\ state_ = Start
    /\ sortedReferenceMetadataList_ = loadSortedReferenceXml
    /\ contigLists_ = loadContigs
    /\ foundMatchesMetadata_ = 0
    /\ selectedMatchesMetadata_ = 0
    /\ barcodeTemplateLengthStatistics_ = 0
    /\ barcodeBamMapping_ = 0
    /\ binFiles = FALSE
    /\ alive = TRUE
    /\ trace = <<>>

\* getNextState with the case AlignDone returning AlignDone
getNextState_repeatsReports(s) ==
    CASE s = Start -> AlignDone
      [] s = AlignDone -> AlignDone
      [] s = AlignmentReportsDone -> BamDone
      [] s = Finish -> Finish
      [] OTHER -> Invalid

\* getNextState with the case AlignDone returning BamDone
getNextState_skipsReports(s) ==
    CASE s = Start -> AlignDone
      [] s = AlignDone -> BamDone
      [] s = AlignmentReportsDone -> BamDone
      [] s = Finish -> Finish
      [] OTHER -> Invalid

(***************************************************************************)
(* AlignWorkflow::getNextState                                             *)
(***************************************************************************)
getNextState(s) ==
    CASE s = Start -> AlignDone
      [] s = AlignDone -> AlignmentReportsDone
      [] s = AlignmentReportsDone -> BamDone
      [] s = Finish -> Finish
      [] OTHER -> Invalid

(***************************************************************************)
(* The three phases. Each either completes or throws; id is the number of  *)
(* the call, naming the results it produces. A phase that throws leaves    *)
(* the members of the object as they were.                                 *)
(***************************************************************************)
\* findMatches dropping the annotations and masks of the reference metadata it is given
findMatches_clearsReference(w, id) ==
    [w EXCEPT !.foundMatchesMetadata_ = id,
              !.selectedMatchesMetadata_ = id,
              !.barcodeTemplateLengthStatistics_ = id,
              !.binFiles = TRUE,
              !.sortedReferenceMetadataList_ = "cleared"]

findMatches(w, id) ==
    [w EXCEPT !.foundMatchesMetadata_ = id,
              !.selectedMatchesMetadata_ = id,
              !.barcodeTemplateLengthStatistics_ = id,
              !.binFiles = TRUE]

generateAlignmentReports(w) == w

generateBam(w, id) == [w EXCEPT !.barcodeBamMapping_ = id]

\* step with state_ assigned before the phase is run instead of after it
step_advancesFirst(w, ok, id) ==
    LET adv == [w EXCEPT !.state_ = getNextState(w.state_)] IN
    CASE w.state_ = Start ->
           IF ok
           THEN [w |-> findMatches(adv, id), ran |-> <<"findMatches">>, bins |-> <<>>,
                 visited |-> <<w.state_, adv.state_>>, outcome |-> "ok", ret |-> adv.state_]
           ELSE [w |-> adv, ran |-> <<"findMatches">>, bins |-> <<>>,
                 visited |-> <<w.state_, adv.state_>>, outcome |-> "exception", ret |-> Invalid]
      [] w.state_ = AlignDone ->
           IF ok
           THEN [w |-> generateAlignmentReports(adv), ran |-> <<"generateAlignmentReports">>,
                 bins |-> <<>>, visited |-> <<w.state_, adv.state_>>,
                 outcome |-> "ok", ret |-> adv.state_]
           ELSE [w |-> adv, ran |-> <<"generateAlignmentReports">>, bins |-> <<>>,
                 visited |-> <<w.state_, adv.state_>>, outcome |-> "exception", ret |-> Invalid]
      [] w.state_ = AlignmentReportsDone ->
           IF ok
           THEN [w |-> generateBam(adv, id), ran |-> <<"generateBam">>,
                 bins |-> <<w.binFiles>>, visited |-> <<w.state_, adv.state_>>,
                 outcome |-> "ok", ret |-> adv.state_]
           ELSE [w |-> adv, ran |-> <<"generateBam">>, bins |-> <<w.binFiles>>,
                 visited |-> <<w.state_, adv.state_>>, outcome |-> "exception", ret |-> Invalid]
      [] w.state_ = Finish ->
           [w |-> w, ran |-> <<>>, bins |-> <<>>, visited |-> <<w.state_>>,
            outcome |-> "ok", ret |-> w.state_]
      [] OTHER ->
           [w |-> w, ran |-> <<>>, bins |-> <<>>, visited |-> <<w.state_>>,
            outcome |-> "assert", ret |-> Invalid]

\* step with the case Finish running generateBam again
step_finishRerunsBam(w, ok, id) ==
    CASE w.state_ = Start ->
           IF ok
           THEN LET w1 == findMatches(w, id)
                    w2 == [w1 EXCEPT !.state_ = getNextState(w1.state_)]
                IN  [w |-> w2, ran |-> <<"findMatches">>, bins |-> <<>>,
                     visited |-> <<w.state_, w2.state_>>,
                     outcome |-> "ok", ret |-> w2.state_]
           ELSE [w |-> w, ran |-> <<"findMatches">>, bins |-> <<>>,
                 visited |-> <<w.state_>>,
                 outcome |-> "exception", ret |-> Invalid]
      [] w.state_ = AlignDone ->
           IF ok
           THEN LET w1 == generateAlignmentReports(w)
                    w2 == [w1 EXCEPT !.state_ = getNextState(w1.state_)]
                IN  [w |-> w2, ran |-> <<"generateAlignmentReports">>, bins |-> <<>>,
                     visited |-> <<w.state_, w2.state_>>,
                     outcome |-> "ok", ret |-> w2.state_]
           ELSE [w |-> w, ran |-> <<"generateAlignmentReports">>, bins |-> <<>>,
                 visited |-> <<w.state_>>,
                 outcome |-> "exception", ret |-> Invalid]
      [] w.state_ = AlignmentReportsDone ->
           IF ok
           THEN LET w1 == generateBam(w, id)
                    w2 == [w1 EXCEPT !.state_ = getNextState(w1.state_)]
                IN  [w |-> w2, ran |-> <<"generateBam">>, bins |-> <<w.binFiles>>,
                     visited |-> <<w.state_, w2.state_>>,
                     outcome |-> "ok", ret |-> w2.state_]
           ELSE [w |-> w, ran |-> <<"generateBam">>, bins |-> <<w.binFiles>>,
                 visited |-> <<w.state_>>,
                 outcome |-> "exception", ret |-> Invalid]
      [] w.state_ = Finish ->
           IF ok
           THEN [w |-> generateBam(w, id), ran |-> <<"generateBam">>, bins |-> <<w.binFiles>>,
                 visited |-> <<w.state_>>, outcome |-> "ok", ret |-> w.state_]
           ELSE [w |-> w, ran |-> <<"generateBam">>, bins |-> <<w.binFiles>>,
                 visited |-> <<w.state_>>, outcome |-> "exception", ret |-> Invalid]
      [] OTHER ->
           [w |-> w, ran |-> <<>>, bins |-> <<>>, visited |-> <<w.state_>>,
            outcome |-> "assert", ret |-> Invalid]

(***************************************************************************)
(* AlignWorkflow::step. ok tells whether the phase completes. The result   *)
(* holds the object after the call, the phases started, the values state_  *)
(* went through and how the call ended: "ok" (ret is the value returned),  *)
(* "exception" (the phase threw) or "assert" (process terminated).         *)
(***************************************************************************)
step(w, ok, id) ==
    CASE w.state_ = Start ->
           IF ok
           THEN LET w1 == findMatches(w, id)
                    w2 == [w1 EXCEPT !.state_ = getNextState(w1.state_)]
                IN  [w |-> w2, ran |-> <<"findMatches">>, bins |-> <<>>,
                     visited |-> <<w.state_, w2.state_>>,
                     outcome |-> "ok", ret |-> w2.state_]
           ELSE [w |-> w, ran |-> <<"findMatches">>, bins |-> <<>>,
                 visited |-> <<w.state_>>,
                 outcome |-> "exception", ret |-> Invalid]
      [] w.state_ = AlignDone ->
           IF ok
           THEN LET w1 == generateAlignmentReports(w)
                    w2 == [w1 EXCEPT !.state_ = getNextState(w1.state_)]
                IN  [w |-> w2, ran |-> <<"generateAlignmentReports">>, bins |-> <<>>,
                     visited |-> <<w.state_, w2.state_>>,
                     outcome |-> "ok", ret |-> w2.state_]
           ELSE [w |-> w, ran |-> <<"generateAlignmentReports">>, bins |-> <<>>,
                 visited |-> <<w.state_>>,
                 outcome |-> "exception", ret |-> Invalid]
      [] w.state_ = AlignmentReportsDone ->
           IF ok
           THEN LET w1 == generateBam(w, id)
                    w2 == [w1 EXCEPT !.state_ = getNextState(w1.state_)]
                IN  [w |-> w2, ran |-> <<"generateBam">>, bins |-> <<w.binFiles>>,
                     visited |-> <<w.state_, w2.state_>>,
                     outcome |-> "ok", ret |-> w2.state_]
           ELSE [w |-> w, ran |-> <<"generateBam">>, bins |-> <<w.binFiles>>,
                 visited |-> <<w.state_>>,
                 outcome |-> "exception", ret |-> Invalid]
      [] w.state_ = Finish ->
           [w |-> w, ran |-> <<>>, bins |-> <<>>, visited |-> <<w.state_>>,
            outcome |-> "ok", ret |-> w.state_]
      [] OTHER ->
           [w |-> w, ran |-> <<>>, bins |-> <<>>, visited |-> <<w.state_>>,
            outcome |-> "assert", ret |-> Invalid]

(***************************************************************************)
(* AlignWorkflow::run: three step() calls, each between two assertions on  *)
(* state_. oks[i] tells whether the phase of the i-th step() completes.    *)
(***************************************************************************)
Asserted(w, ran, bins, visited) ==
    [w |-> w, ran |-> ran, bins |-> bins, visited |-> visited,
     outcome |-> "assert", ret |-> Invalid]

Chain(r1, r2) ==
    [w |-> r2.w, ran |-> r1.ran \o r2.ran, bins |-> r1.bins \o r2.bins,
     visited |-> r1.visited \o Tail(r2.visited),
     outcome |-> r2.outcome, ret |-> r2.ret]

\* run with the third step() call left out
run_twoSteps(w, oks, id) ==
    IF w.state_ # Start THEN Asserted(w, <<>>, <<>>, <<w.state_>>)
    ELSE
    LET r1 == step(w, oks[1], id) IN
    IF r1.outcome # "ok" THEN r1
    ELSE IF r1.w.state_ # AlignDone THEN Asserted(r1.w, r1.ran, r1.bins, r1.visited)
    ELSE
    LET r2 == Chain(r1, step(r1.w, oks[2], id)) IN
    IF r2.outcome # "ok" THEN r2
    ELSE IF r2.w.state_ # AlignmentReportsDone THEN Asserted(r2.w, r2.ran, r2.bins, r2.visited)
    ELSE IF r2.w.state_ # BamDone THEN Asserted(r2.w, r2.ran, r2.bins, r2.visited)
    ELSE [r2 EXCEPT !.ret = Invalid]

\* run without the assertion made before the first step()
run_noEntryAssert(w, oks, id) ==
    LET r1 == step(w, oks[1], id) IN
    IF r1.outcome # "ok" THEN r1
    ELSE IF r1.w.state_ # AlignDone THEN Asserted(r1.w, r1.ran, r1.bins, r1.visited)
    ELSE
    LET r2 == Chain(r1, step(r1.w, oks[2], id)) IN
    IF r2.outcome # "ok" THEN r2
    ELSE IF r2.w.state_ # AlignmentReportsDone THEN Asserted(r2.w, r2.ran, r2.bins, r2.visited)
    ELSE
    LET r3 == Chain(r2, step(r2.w, oks[3], id)) IN
    IF r3.outcome # "ok" THEN r3
    ELSE IF r3.w.state_ # BamDone THEN Asserted(r3.w, r3.ran, r3.bins, r3.visited)
    ELSE [r3 EXCEPT !.ret = Invalid]

run(w, oks, id) ==
    IF w.state_ # Start THEN Asserted(w, <<>>, <<>>, <<w.state_>>)
    ELSE
    LET r1 == step(w, oks[1], id) IN
    IF r1.outcome # "ok" THEN r1
    ELSE IF r1.w.state_ # AlignDone THEN Asserted(r1.w, r1.ran, r1.bins, r1.visited)
    ELSE
    LET r2 == Chain(r1, step(r1.w, oks[2], id)) IN
    IF r2.outcome # "ok" THEN r2
    ELSE IF r2.w.state_ # AlignmentReportsDone THEN Asserted(r2.w, r2.ran, r2.bins, r2.visited)
    ELSE
    LET r3 == Chain(r2, step(r2.w, oks[3], id)) IN
    IF r3.outcome # "ok" THEN r3
    ELSE IF r3.w.state_ # BamDone THEN Asserted(r3.w, r3.ran, r3.bins, r3.visited)
    ELSE [r3 EXCEPT !.ret = Invalid]

(***************************************************************************)
(* AlignWorkflow::cleanupBins and AlignWorkflow::cleanupIntermediary       *)
(***************************************************************************)
cleanupBins(w) == [w EXCEPT !.binFiles = FALSE]

\* cleanupIntermediary with the case AlignmentReportsDone placed above the fall through
cleanupIntermediary_cleansEarly(w) ==
    CASE w.state_ \in {Finish, AlignmentReportsDone} ->
           [w |-> cleanupBins(w), ran |-> <<>>, bins |-> <<>>, visited |-> <<w.state_>>,
            outcome |-> "ok", ret |-> Invalid]
      [] w.state_ \in {AlignDone, Start} ->
           [w |-> w, ran |-> <<>>, bins |-> <<>>, visited |-> <<w.state_>>,
            outcome |-> "ok", ret |-> Invalid]
      [] OTHER -> Asserted(w, <<>>, <<>>, <<w.state_>>)

cleanupIntermediary(w) ==
    CASE w.state_ = Finish ->
           [w |-> cleanupBins(w), ran |-> <<>>, bins |-> <<>>, visited |-> <<w.state_>>,
            outcome |-> "ok", ret |-> Invalid]
      [] w.state_ \in {AlignmentReportsDone, AlignDone, Start} ->
           [w |-> w, ran |-> <<>>, bins |-> <<>>, visited |-> <<w.state_>>,
            outcome |-> "ok", ret |-> Invalid]
      [] OTHER -> Asserted(w, <<>>, <<>>, <<w.state_>>)

(***************************************************************************)
(* AlignWorkflow::rewind. "exception" is the PreConditionException, thrown *)
(* before state_ is assigned.                                              *)
(***************************************************************************)
Thrown(w) ==
    [w |-> w, ran |-> <<>>, bins |-> <<>>, visited |-> <<w.state_>>,
     outcome |-> "exception", ret |-> Invalid]

\* a rewind that also drops the bin metadata list found by findMatches
Rewound_resetsResults(w, to) ==
    [w |-> [w EXCEPT !.state_ = to, !.selectedMatchesMetadata_ = 0], ran |-> <<>>,
     bins |-> <<>>, visited |-> <<w.state_, to>>, outcome |-> "ok", ret |-> w.state_]

\* a rewind returning the state rewound to
Rewound_returnsNew(w, to) ==
    [w |-> [w EXCEPT !.state_ = to], ran |-> <<>>, bins |-> <<>>,
     visited |-> <<w.state_, to>>, outcome |-> "ok", ret |-> to]

Rewound(w, to) ==
    [w |-> [w EXCEPT !.state_ = to], ran |-> <<>>, bins |-> <<>>,
     visited |-> <<w.state_, to>>, outcome |-> "ok", ret |-> w.state_]

\* rewind whose case Last assigns Last to state_
rewind_assignsLast(w, to) ==
    CASE to = Last -> Rewound(w, Last)
      [] to = Start -> Rewound(w, Start)
      [] to = AlignDone ->
           IF Start = w.state_ THEN Thrown(w) ELSE Rewound(w, AlignDone)
      [] to = AlignmentReportsDone ->
           IF Start = w.state_ THEN Thrown(w)
           ELSE IF AlignDone = w.state_ THEN Thrown(w)
           ELSE Rewound(w, AlignmentReportsDone)
      [] to = BamDone ->
           IF Start = w.state_ THEN Thrown(w)
           ELSE IF AlignDone = w.state_ THEN Thrown(w)
           ELSE IF AlignmentReportsDone = w.state_ THEN Thrown(w)
           ELSE Rewound(w, BamDone)
      [] OTHER -> Asserted(w, <<>>, <<>>, <<w.state_>>)

\* rewind without the check that refuses AlignmentReportsDone from AlignDone
rewind_missingCheck(w, to) ==
    CASE to = Last ->
           [w |-> w, ran |-> <<>>, bins |-> <<>>, visited |-> <<w.state_>>,
            outcome |-> "ok", ret |-> w.state_]
      [] to = Start -> Rewound(w, Start)
      [] to = AlignDone ->
           IF Start = w.state_ THEN Thrown(w) ELSE Rewound(w, AlignDone)
      [] to = AlignmentReportsDone ->
           IF Start = w.state_ THEN Thrown(w)
           ELSE Rewound(w, AlignmentReportsDone)
      [] to = BamDone ->
           IF Start = w.state_ THEN Thrown(w)
           ELSE IF AlignDone = w.state_ THEN Thrown(w)
           ELSE IF AlignmentReportsDone = w.state_ THEN Thrown(w)
           ELSE Rewound(w, BamDone)
      [] OTHER -> Asserted(w, <<>>, <<>>, <<w.state_>>)

\* rewind whose case AlignmentReportsDone assigns AlignDone to state_
rewind_wrongTarget(w, to) ==
    CASE to = Last ->
           [w |-> w, ran |-> <<>>, bins |-> <<>>, visited |-> <<w.state_>>,
            outcome |-> "ok", ret |-> w.state_]
      [] to = Start -> Rewound(w, Start)
      [] to = AlignDone ->
           IF Start = w.state_ THEN Thrown(w) ELSE Rewound(w, AlignDone)
      [] to = AlignmentReportsDone ->
           IF Start = w.state_ THEN Thrown(w)
           ELSE IF AlignDone = w.state_ THEN Thrown(w)
           ELSE Rewound(w, AlignDone)
      [] to = BamDone ->
           IF Start = w.state_ THEN Thrown(w)
           ELSE IF AlignDone = w.state_ THEN Thrown(w)
           ELSE IF AlignmentReportsDone = w.state_ THEN Thrown(w)
           ELSE Rewound(w, BamDone)
      [] OTHER -> Asserted(w, <<>>, <<>>, <<w.state_>>)

rewind(w, to) ==
    CASE to = Last ->
           [w |-> w, ran |-> <<>>, bins |-> <<>>, visited |-> <<w.state_>>,
            outcome |-> "ok", ret |-> w.state_]
      [] to = Start -> Rewound(w, Start)
      [] to = AlignDone ->
           IF Start = w.state_ THEN Thrown(w) ELSE Rewound(w, AlignDone)
      [] to = AlignmentReportsDone ->
           IF Start = w.state_ THEN Thrown(w)
           ELSE IF AlignDone = w.state_ THEN Thrown(w)
           ELSE Rewound(w, AlignmentReportsDone)
      [] to = BamDone ->
           IF Start = w.state_ THEN Thrown(w)
           ELSE IF AlignDone = w.state_ THEN Thrown(w)
           ELSE IF AlignmentReportsDone = w.state_ THEN Thrown(w)
           ELSE Rewound(w, BamDone)
      [] OTHER -> Asserted(w, <<>>, <<>>, <<w.state_>>)

(***************************************************************************)
(* Quality.hh. An unsigned (32 bits) is the pair <<high, low>> of its two  *)
(* 16-bit halves, an unsigned char is an integer in 0..255.                *)
(***************************************************************************)
Half == 65536

\* the unsigned holding the small non-negative integer n
U32(n) == <<n \div Half, n % Half>>

\* the unsigned that -n converts to (n > 0 and small): 2^32 - n
U32Neg(n) == <<(Half - 1) - ((n - 1) \div Half), (Half - 1) - ((n - 1) % Half)>>

\* a < b on unsigned
ULess(a, b) == a[1] < b[1] \/ (a[1] = b[1] /\ a[2] < b[2])

\* std::min, std::max on unsigned
UMin(a, b) == IF ULess(b, a) THEN b ELSE a

UMax(a, b) == IF ULess(a, b) THEN b ELSE a

\* conversion of an unsigned to unsigned char
ToUChar(a) == a[2] % 256

\* std::min on unsigned char
CMin(a, b) == IF b < a THEN b ELSE a

REPEAT_ALIGNMENT_SCORE == 3
UNKNOWN_ALIGNMENT_SCORE == U32Neg(1)
UNKNOWN_MAPQ == 255
MAX_MAPQ == 60

\* results of a function that asserts on its arguments
Returned(v) == [outcome |-> "ok", value |-> v]

AssertFailed == [outcome |-> "assert", value |-> 0]

\* isUnique comparing with <= instead of <
isUnique_orEqual(alignmentScore) == ~ULess(alignmentScore, U32(REPEAT_ALIGNMENT_SCORE))

isUnique(alignmentScore) == ULess(U32(REPEAT_ALIGNMENT_SCORE), alignmentScore)

\* alignmentScoreToMapq without the std::min against MAX_MAPQ
alignmentScoreToMapq_noClamp(alignmentScore) ==
    IF UNKNOWN_ALIGNMENT_SCORE = alignmentScore THEN AssertFailed
    ELSE Returned(ToUChar(alignmentScore))

alignmentScoreToMapq(alignmentScore) ==
    IF UNKNOWN_ALIGNMENT_SCORE = alignmentScore THEN AssertFailed
    ELSE Returned(ToUChar(UMin(U32(MAX_MAPQ), alignmentScore)))

\* pickMapQ rescuing with the template score alone, whatever the score of the mate
pickMapQ_ignoresMate(alignmentScore, mateAlignmentScore, properPair, templateAlignmentScore) ==
    IF UNKNOWN_ALIGNMENT_SCORE = alignmentScore THEN AssertFailed
    ELSE IF UNKNOWN_ALIGNMENT_SCORE = mateAlignmentScore THEN AssertFailed
    ELSE IF UNKNOWN_ALIGNMENT_SCORE = templateAlignmentScore THEN AssertFailed
    ELSE alignmentScoreToMapq(
             IF properPair
             THEN UMax(alignmentScore, templateAlignmentScore)
             ELSE alignmentScore)

pickMapQ(alignmentScore, mateAlignmentScore, properPair, templateAlignmentScore) ==
    IF UNKNOWN_ALIGNMENT_SCORE = alignmentScore THEN AssertFailed
    ELSE IF UNKNOWN_ALIGNMENT_SCORE = mateAlignmentScore THEN AssertFailed
    ELSE IF UNKNOWN_ALIGNMENT_SCORE = templateAlignmentScore THEN AssertFailed
    ELSE alignmentScoreToMapq(
             IF properPair
             THEN UMax(alignmentScore, UMin(templateAlignmentScore, mateAlignmentScore))
             ELSE alignmentScore)

\* pickMapQFromMate without the assertion on mateMapQ
pickMapQFromMate_noMateCheck(mateMapQ, templateAlignmentScore) ==
    IF UNKNOWN_ALIGNMENT_SCORE = templateAlignmentScore THEN AssertFailed
    ELSE LET m == alignmentScoreToMapq(templateAlignmentScore) IN
         IF m.outcome # "ok" THEN m ELSE Returned(CMin(m.value, mateMapQ))

\* pickMapQFromMate returning the MAPQ of the template score, whatever the MAPQ of the mate
pickMapQFromMate_ignoresMate(mateMapQ, templateAlignmentScore) ==
    IF UNKNOWN_MAPQ = mateMapQ THEN AssertFailed
    ELSE IF UNKNOWN_ALIGNMENT_SCORE = templateAlignmentScore THEN AssertFailed
    ELSE alignmentScoreToMapq(templateAlignmentScore)

pickMapQFromMate(mateMapQ, templateAlignmentScore) ==
    IF UNKNOWN_MAPQ = mateMapQ THEN AssertFailed
    ELSE IF UNKNOWN_ALIGNMENT_SCORE = templateAlignmentScore THEN AssertFailed
    ELSE LET m == alignmentScoreToMapq(templateAlignmentScore) IN
         IF m.outcome # "ok" THEN m ELSE Returned(CMin(m.value, mateMapQ))

(***************************************************************************)
(* The arguments the functions of Quality.hh are applied to: scores around *)
(* REPEAT_ALIGNMENT_SCORE, around MAX_MAPQ, beyond one byte, beyond 16     *)
(* bits and at the top of the unsigned range; mate MAPQ bytes likewise.    *)
(***************************************************************************)
Scores ==
    {U32(n) : n \in 0..MaxSmallScore}
        \cup {U32(n) : n \in {MAX_MAPQ - 1, MAX_MAPQ, MAX_MAPQ + 1, 256 + MAX_MAPQ, Half}}
        \cup {U32Neg(2), U32Neg(1)}

MapQs == (0..MaxSmallScore) \cup {MAX_MAPQ - 1, MAX_MAPQ, MAX_MAPQ + 1, 254, 255}

QualityArgs ==
    [alignmentScore : Scores, mateAlignmentScore : Scores, properPair : BOOLEAN,
     templateAlignmentScore : Scores, mateMapQ : MapQs]

NoArgs ==
    [alignmentScore |-> U32(0), mateAlignmentScore |-> U32(0), properPair |-> FALSE,
     templateAlignmentScore |-> U32(0), mateMapQ |-> 0]

NoResult == [fn |-> "none", outcome |-> "none", value |-> 0]

Applied(fn, r) ==
    /\ qRes.outcome # "assert"
    /\ qRes' = [fn |-> fn, outcome |-> r.outcome, value |-> r.value]
    /\ UNCHANGED <<qArgs, wfVars, sVars, cVars, rVars, bVars, tVars, aVars, eVars>>

ApplyAlignmentScoreToMapq ==
    Applied("alignmentScoreToMapq", alignmentScoreToMapq(qArgs.alignmentScore))

ApplyPickMapQ ==
    Applied("pickMapQ", pickMapQ(qArgs.alignmentScore, qArgs.mateAlignmentScore,
                                 qArgs.properPair, qArgs.templateAlignmentScore))

ApplyPickMapQFromMate ==
    Applied("pickMapQFromMate", pickMapQFromMate(qArgs.mateMapQ, qArgs.templateAlignmentScore))

\* the functions of Quality.hh are not being applied
IdleQ == qArgs = NoArgs /\ qRes = NoResult

(***************************************************************************)
(* computeAlignmentScore. The probabilities are whole numbers of units and *)
(* the quotient is the exact fraction n / d. floor(-10 * log10(n / d)) is  *)
(* at least k when n / d <= 10^(-k/10); Pow10Tenth[k] is 10^(-k/10) in     *)
(* millionths, rounded down. A quotient within one millionth of such a     *)
(* power can fall on either side of it, so the function yields the set of  *)
(* the values it can return. With n = 0 the logarithm is -infinity and the *)
(* conversion of +infinity to unsigned is undefined: any value.            *)
(***************************************************************************)
Million == 1000000

Pow10Tenth ==
    <<794328, 630957, 501187, 398107, 316227, 251188,
      199526, 158489, 125892, 100000, 79432, 63095,
      50118, 39810, 31622, 25118, 19952, 15848,
      12589, 10000, 7943, 6309, 5011, 3981,
      3162, 2511, 1995, 1584, 1258, 1000,
      794, 630, 501, 398>>

\* n / d is certainly above 10^(-k/10): the score is certainly below k
CertainlyBelow(k, n, d) == k > 0 /\ n * Million > (Pow10Tenth[k] + 1) * d

\* n / d is certainly below 10^(-k/10): the score is certainly k or more
CertainlyAtLeast(k, n, d) == k = 0 \/ n * Million < Pow10Tenth[k] * d

\* the values floor(-10 * log10(n / d)) can take, for 0 < n <= d
FloorMinus10Log10(n, d) ==
    {k \in 0..Len(Pow10Tenth) :
        /\ ~CertainlyBelow(k, n, d)
        /\ (k = Len(Pow10Tenth) \/ ~CertainlyAtLeast(k + 1, n, d))}

\* computeAlignmentScore rounding up instead of down
computeAlignmentScore_ceil(restOfGenomeCorrection, alignmentProbability, otherAlignmentsProbability) ==
    LET n == otherAlignmentsProbability + restOfGenomeCorrection
        d == otherAlignmentsProbability + alignmentProbability + restOfGenomeCorrection
    IN  IF n = 0 THEN Scores ELSE {U32(k + 1) : k \in FloorMinus10Log10(n, d)}

computeAlignmentScore(restOfGenomeCorrection, alignmentProbability, otherAlignmentsProbability) ==
    LET n == otherAlignmentsProbability + restOfGenomeCorrection
        d == otherAlignmentsProbability + alignmentProbability + restOfGenomeCorrection
    IN  IF n = 0 THEN Scores ELSE {U32(k) : k \in FloorMinus10Log10(n, d)}

(***************************************************************************)
(* The arguments isUnique and computeAlignmentScore are applied to.        *)
(***************************************************************************)
Probabilities == {1, 2, MaxProb \div 2, MaxProb}

OtherProbabilities == {0} \cup Probabilities

Corrections == {0, 1, MaxProb \div 10}

ScoringArgs ==
    [alignmentScore : Scores, restOfGenomeCorrection : Corrections,
     alignmentProbability : Probabilities, otherAlignmentsProbability : OtherProbabilities]

NoScoringArgs ==
    [alignmentScore |-> U32(0), restOfGenomeCorrection |-> 0,
     alignmentProbability |-> 1, otherAlignmentsProbability |-> 0]

NoScoringResult == [fn |-> "none", score |-> U32(0), unique |-> FALSE]

IdleS == sArgs = NoScoringArgs /\ sRes = NoScoringResult

ApplyIsUnique ==
    /\ sRes' = [fn |-> "isUnique", score |-> sArgs.alignmentScore,
                unique |-> isUnique(sArgs.alignmentScore)]
    /\ UNCHANGED <<sArgs, wfVars, qVars, cVars, rVars, bVars, tVars, aVars, eVars>>

ApplyComputeAlignmentScore ==
    /\ \E score \in computeAlignmentScore(sArgs.restOfGenomeCorrection,
                                          sArgs.alignmentProbability,
                                          sArgs.otherAlignmentsProbability) :
           sRes' = [fn |-> "computeAlignmentScore", score |-> score, unique |-> isUnique(score)]
    /\ UNCHANGED <<sArgs, wfVars, qVars, cVars, rVars, bVars, tVars, aVars, eVars>>

(***************************************************************************)
(* The bin targets computed by the constructor of AlignWorkflow. The       *)
(* estimated fragment size and the result of                               *)
(* Build::estimateOptimumFragmentsPerBin are computed outside this file    *)
(* and are inputs here. The values are small: no product overflows. A      *)
(* division by an expectedCoverage of 0 is undefined: any result.          *)
(***************************************************************************)
\* targetFragmentsPerBin_
targetFragmentsPerBin(targetBinSize, estimatedFragmentSize, optimumFragmentsPerBin) ==
    IF targetBinSize # 0 THEN targetBinSize \div estimatedFragmentSize
    ELSE optimumFragmentsPerBin

\* targetBinLength_ with the multiplication made before the division
targetBinLength_multipliesFirst(targetFragmentsPerBin_, expectedCoverage, maxReadLength) ==
    (targetFragmentsPerBin_ * maxReadLength) \div expectedCoverage

\* targetBinLength_
targetBinLength(targetFragmentsPerBin_, expectedCoverage, maxReadLength) ==
    (targetFragmentsPerBin_ \div expectedCoverage) * maxReadLength

\* targetBinSize_
targetBinSize(targetBinSizeArg, targetFragmentsPerBin_, estimatedFragmentSize) ==
    IF targetBinSizeArg # 0 THEN targetBinSizeArg
    ELSE targetFragmentsPerBin_ * estimatedFragmentSize

ConstructorArgs ==
    [targetBinSize : 0..(2 * MaxConfig),
     estimatedFragmentSize : 1..MaxConfig,
     expectedCoverage : 0..MaxConfig,
     maxReadLength : 1..MaxConfig,
     optimumFragmentsPerBin : {1, MaxConfig}]

NoConstructorArgs ==
    [targetBinSize |-> 0, estimatedFragmentSize |-> 1, expectedCoverage |-> 1,
     maxReadLength |-> 1, optimumFragmentsPerBin |-> 1]

NotConstructed ==
    [outcome |-> "none", targetFragmentsPerBin_ |-> 0, targetBinLength_ |-> 0,
     targetBinSize_ |-> 0]

IdleC == cArgs = NoConstructorArgs /\ cRes = NotConstructed

Construct ==
    /\ cRes.outcome = "none"
    /\ LET f == targetFragmentsPerBin(cArgs.targetBinSize, cArgs.estimatedFragmentSize,
                                      cArgs.optimumFragmentsPerBin)
           b == targetBinSize(cArgs.targetBinSize, f, cArgs.estimatedFragmentSize)
       IN  IF cArgs.expectedCoverage = 0
           THEN \E any \in 0..MaxConfig :
                    cRes' = [outcome |-> "undefined", targetFragmentsPerBin_ |-> f,
                             targetBinLength_ |-> any, targetBinSize_ |-> b]
           ELSE cRes' = [outcome |-> "ok", targetFragmentsPerBin_ |-> f,
                         targetBinLength_ |->
                             targetBinLength(f, cArgs.expectedCoverage, cArgs.maxReadLength),
                         targetBinSize_ |-> b]
    /\ UNCHANGED <<cArgs, wfVars, qVars, sVars, rVars, bVars, tVars, aVars, eVars>>

(***************************************************************************)
(* SortedReferenceMetadata::Contig (the members genomicOffsetToPosition    *)
(* reads) and genomicOffsetToPosition. The list is ordered by              *)
(* genomicPosition_, as std::upper_bound requires; upper_bound then yields *)
(* the first contig whose genomicPosition_ is above the offset, or the end *)
(* of the list. A ReferencePosition is "position" with its contig id and   *)
(* offset, or "NoMatch".                                                   *)
(***************************************************************************)
\* std::lower_bound in the place of std::upper_bound
upper_bound_lower(contigList, genomicOffset) ==
    IF \E i \in 1..Len(contigList) : ~(contigList[i].genomicPosition_ < genomicOffset)
    THEN CHOOSE i \in 1..Len(contigList) :
             /\ ~(contigList[i].genomicPosition_ < genomicOffset)
             /\ \A j \in 1..(i - 1) : contigList[j].genomicPosition_ < genomicOffset
    ELSE Len(contigList) + 1

upper_bound(contigList, genomicOffset) ==
    IF \E i \in 1..Len(contigList) : genomicOffset < contigList[i].genomicPosition_
    THEN CHOOSE i \in 1..Len(contigList) :
             /\ genomicOffset < contigList[i].genomicPosition_
             /\ \A j \in 1..(i - 1) : ~(genomicOffset < contigList[j].genomicPosition_)
    ELSE Len(contigList) + 1

genomicOffsetToPosition(genomicOffset, contigList) ==
    LET ub == upper_bound(contigList, genomicOffset) IN
    IF ub = 1
    THEN [outcome |-> "assert", contigId |-> 0, position |-> 0]
    ELSE LET contig == contigList[ub - 1] IN
         IF genomicOffset - contig.genomicPosition_ < contig.totalBases_
         THEN [outcome |-> "position", contigId |-> contig.index_,
               position |-> genomicOffset - contig.genomicPosition_]
         ELSE [outcome |-> "NoMatch", contigId |-> 0, position |-> 0]

\* the contig lists of n contigs: index_ a permutation of 0..n-1, genomicPosition_ ordered
ContigListsOfLength(n) ==
    {[i \in 1..n |-> [index_ |-> ix[i], genomicPosition_ |-> gp[i], totalBases_ |-> tb[i]]] :
        ix \in {f \in [1..n -> 0..(n - 1)] : \A i, j \in 1..n : f[i] = f[j] => i = j},
        gp \in {f \in [1..n -> 0..MaxPosition] : \A i \in 1..(n - 1) : f[i] <= f[i + 1]},
        tb \in [1..n -> 0..MaxBases]}

ContigLists == UNION {ContigListsOfLength(n) : n \in 0..MaxContigs}

ReferenceArgs == [genomicOffset : 0..(MaxPosition + MaxBases), contigList : ContigLists]

NoReferenceArgs == [genomicOffset |-> 0, contigList |-> <<>>]

NoPosition == [outcome |-> "none", contigId |-> 0, position |-> 0]

IdleR == rArgs = NoReferenceArgs /\ rRes = NoPosition

ApplyGenomicOffsetToPosition ==
    /\ rRes.outcome = "none"
    /\ rRes' = genomicOffsetToPosition(rArgs.genomicOffset, rArgs.contigList)
    /\ UNCHANGED <<rArgs, wfVars, qVars, sVars, cVars, bVars, tVars, aVars, eVars>>

(***************************************************************************)
(* The body of AlignWorkflow::generateBam, statement by statement: the     *)
(* Build object is constructed, an inner block declares the                *)
(* ScopedMallocBlock and calls build.run, the end of the block destroys    *)
(* the ScopedMallocBlock, then build.dumpStats writes BuildStats.xml and   *)
(* the function returns. A statement that throws ends the call, and the    *)
(* unwinding destroys the ScopedMallocBlock if it is alive.                *)
(***************************************************************************)
\* generateBam without the inner block: mallocBlock lives to the end of the function
generateBamBody_noInnerBlock ==
    <<"Build", "ScopedMallocBlock", "build.run", "build.dumpStats", "~ScopedMallocBlock",
      "return">>

generateBamBody ==
    <<"Build", "ScopedMallocBlock", "build.run", "~ScopedMallocBlock", "build.dumpStats",
      "return">>

\* the statements that can throw
Throwing == {"Build", "build.run", "build.dumpStats"}

Did(statement, threw) == [did |-> statement, threw |-> threw]

\* the number of calls of generateBam made so far
BamCalls == Cardinality({i \in 1..Len(bamLog) : bamLog[i].did = "generateBam"})

\* the memory guard is held while the ScopedMallocBlock is alive
MallocBlockHeld == mallocBlock

IdleB == bamPc = 0 /\ mallocBlock = FALSE /\ bamLog = <<>>

EnterGenerateBam ==
    /\ bamPc = 0
    /\ BamCalls < MaxBamCalls
    /\ bamPc' = 1
    /\ bamLog' = Append(bamLog, Did("generateBam", FALSE))
    /\ UNCHANGED <<mallocBlock, wfVars, qVars, sVars, cVars, rVars, tVars, aVars, eVars>>

ExecuteStatement ==
    /\ bamPc > 0
    /\ LET statement == generateBamBody[bamPc] IN
       /\ bamLog' = Append(bamLog, Did(statement, FALSE))
       /\ bamPc' = IF statement = "return" THEN 0 ELSE bamPc + 1
       /\ mallocBlock' = CASE statement = "ScopedMallocBlock" -> TRUE
                           [] statement = "~ScopedMallocBlock" -> FALSE
                           [] OTHER -> mallocBlock
    /\ UNCHANGED <<wfVars, qVars, sVars, cVars, rVars, tVars, aVars, eVars>>

StatementThrows ==
    /\ bamPc > 0
    /\ generateBamBody[bamPc] \in Throwing
    /\ bamLog' = bamLog \o <<Did(generateBamBody[bamPc], TRUE)>>
                        \o (IF mallocBlock THEN <<Did("~ScopedMallocBlock", FALSE)>> ELSE <<>>)
    /\ bamPc' = 0
    /\ mallocBlock' = FALSE
    /\ UNCHANGED <<wfVars, qVars, sVars, cVars, rVars, tVars, aVars, eVars>>

(***************************************************************************)
(* MatchFinderTileStats and its operator +. A uint64_t is the tuple        *)
(* <<w3, w2, w1, w0>> of its four 16-bit words, w0 the lowest; += adds     *)
(* word by word with carry and drops the carry out of w3.                  *)
(***************************************************************************)
U64(w3, w2, w1, w0) == <<w3, w2, w1, w0>>

\* a += b on uint64_t
AddU64(a, b) ==
    LET s0 == a[4] + b[4]
        s1 == a[3] + b[3] + (s0 \div Half)
        s2 == a[2] + b[2] + (s1 \div Half)
        s3 == a[1] + b[1] + (s2 \div Half)
    IN  <<s3 % Half, s2 % Half, s1 % Half, s0 % Half>>

\* MatchFinderTileStats()
MatchFinderTileStats ==
    [uniqueMatchSeeds_ |-> U64(0, 0, 0, 0), noMatchSeeds_ |-> U64(0, 0, 0, 0),
     repeatMatchSeeds_ |-> U64(0, 0, 0, 0), tooManyRepeatsSeeds_ |-> U64(0, 0, 0, 0),
     repeatMatches_ |-> U64(0, 0, 0, 0)]

\* operator + adding the repeat match seeds of right to the repeat matches of left
operatorPlus_addsSeedsToMatches(left, right) ==
    [uniqueMatchSeeds_ |-> AddU64(left.uniqueMatchSeeds_, right.uniqueMatchSeeds_),
     noMatchSeeds_ |-> AddU64(left.noMatchSeeds_, right.noMatchSeeds_),
     repeatMatchSeeds_ |-> AddU64(left.repeatMatchSeeds_, right.repeatMatchSeeds_),
     tooManyRepeatsSeeds_ |-> AddU64(left.tooManyRepeatsSeeds_, right.tooManyRepeatsSeeds_),
     repeatMatches_ |-> AddU64(left.repeatMatches_, right.repeatMatchSeeds_)]

\* operator +(MatchFinderTileStats left, const MatchFinderTileStats &right)
operatorPlus(left, right) ==
    [uniqueMatchSeeds_ |-> AddU64(left.uniqueMatchSeeds_, right.uniqueMatchSeeds_),
     noMatchSeeds_ |-> AddU64(left.noMatchSeeds_, right.noMatchSeeds_),
     repeatMatchSeeds_ |-> AddU64(left.repeatMatchSeeds_, right.repeatMatchSeeds_),
     tooManyRepeatsSeeds_ |-> AddU64(left.tooManyRepeatsSeeds_, right.tooManyRepeatsSeeds_),
     repeatMatches_ |-> AddU64(left.repeatMatches_, right.repeatMatches_)]

\* the statistics of a tile: small counts, counts at the top of a word, of two words
\* and of the uint64_t range, each counter with a value of its own
TileStats ==
    {MatchFinderTileStats,
     [uniqueMatchSeeds_ |-> U64(0, 0, 0, 1), noMatchSeeds_ |-> U64(0, 0, 0, 2),
      repeatMatchSeeds_ |-> U64(0, 0, 0, 3), tooManyRepeatsSeeds_ |-> U64(0, 0, 0, 4),
      repeatMatches_ |-> U64(0, 0, 0, 5)],
     [uniqueMatchSeeds_ |-> U64(0, 0, 0, 65535), noMatchSeeds_ |-> U64(0, 0, 65535, 65535),
      repeatMatchSeeds_ |-> U64(0, 65535, 65535, 65535),
      tooManyRepeatsSeeds_ |-> U64(65535, 65535, 65535, 65535),
      repeatMatches_ |-> U64(32768, 0, 0, 0)],
     [uniqueMatchSeeds_ |-> U64(65535, 65535, 65535, 65535), noMatchSeeds_ |-> U64(0, 0, 0, 1),
      repeatMatchSeeds_ |-> U64(0, 0, 1, 0), tooManyRepeatsSeeds_ |-> U64(0, 0, 0, 0),
      repeatMatches_ |-> U64(32768, 0, 0, 1)],
     [uniqueMatchSeeds_ |-> U64(0, 0, 0, 7), noMatchSeeds_ |-> U64(65535, 65535, 65535, 65534),
      repeatMatchSeeds_ |-> U64(1, 2, 3, 4), tooManyRepeatsSeeds_ |-> U64(0, 0, 65535, 1),
      repeatMatches_ |-> U64(65535, 0, 65535, 0)]}

IdleT == tiles = <<>> /\ total = MatchFinderTileStats

\* the statistics of one more tile are added to the total
AddTileStats ==
    /\ Len(tiles) < MaxTiles
    /\ \E tile \in TileStats :
           /\ total' = operatorPlus(total, tile)
           /\ tiles' = Append(tiles, tile)
    /\ UNCHANGED <<wfVars, qVars, sVars, cVars, rVars, bVars, aVars, eVars>>

(***************************************************************************)
(* The annotations of SortedReferenceMetadata: annotationFiles_ is a       *)
(* vector of AnnotationFile, empty after construction. hasAnnotation and   *)
(* getAnnotation look for the first element of the type.                   *)
(***************************************************************************)
KUniqueness == "KUniqueness"
KRepeatness == "KRepeatness"

AnnotationFile(type, path, k) == [type_ |-> type, path_ |-> path, k_ |-> k]

hasAnnotation(files, type) == \E i \in 1..Len(files) : files[i].type_ = type

\* the position std::find_if yields
FindAnnotation(files, type) ==
    CHOOSE i \in 1..Len(files) :
        /\ files[i].type_ = type
        /\ \A j \in 1..(i - 1) : files[j].type_ # type

getAnnotation(files, type) ==
    IF ~hasAnnotation(files, type) THEN [outcome |-> "assert", value |-> AnnotationFile(type, "", 0)]
    ELSE [outcome |-> "ok", value |-> files[FindAnnotation(files, type)]]

\* setAnnotation appending the annotation whether or not the type is there
setAnnotation_alwaysAppends(files, type, path, k) ==
    Append(files, AnnotationFile(type, path, k))

setAnnotation(files, type, path, k) ==
    IF ~hasAnnotation(files, type)
    THEN Append(files, AnnotationFile(type, path, k))
    ELSE [files EXCEPT ![FindAnnotation(files, type)] = AnnotationFile(type, path, k)]

hasKUniquenessAnnotation(files) == hasAnnotation(files, KUniqueness)

getKUniquenessAnnotation(files) == getAnnotation(files, KUniqueness)

hasKRepeatnessAnnotation(files) == hasAnnotation(files, KRepeatness)

getKRepeatnessAnnotation(files) == getAnnotation(files, KRepeatness)

\* the paths and the k the annotations are set with
AnnotationPaths == {"first.dat", "second.dat"}

AnnotationKs == 1..MaxK

IdleA == annotationFiles_ = <<>> /\ annotationCalls = <<>>

AnnotationCall(op, path, k, files) ==
    /\ Len(annotationCalls) < MaxAnnotationCalls
    /\ annotationFiles_' = files
    /\ annotationCalls' = Append(annotationCalls, [op |-> op, path |-> path, k |-> k])
    /\ UNCHANGED <<wfVars, qVars, sVars, cVars, rVars, bVars, tVars, eVars>>

SetKUniquenessAnnotation ==
    \E path \in AnnotationPaths, k \in AnnotationKs :
        AnnotationCall("setKUniquenessAnnotation", path, k,
                       setAnnotation(annotationFiles_, KUniqueness, path, k))

SetKRepeatnessAnnotation ==
    \E path \in AnnotationPaths, k \in AnnotationKs :
        AnnotationCall("setKRepeatnessAnnotation", path, k,
                       setAnnotation(annotationFiles_, KRepeatness, path, k))

ClearAnnotations == AnnotationCall("clearAnnotations", "", 0, <<>>)

(***************************************************************************)
(* SortedReferenceMetadata::Contig with all its members, and its           *)
(* operator ==. The strings and paths are names, "" the empty string.      *)
(***************************************************************************)
ContigEquals(this, that) ==
    /\ this.index_ = that.index_
    /\ this.name_ = that.name_
    /\ this.decoy_ = that.decoy_
    /\ \/ (this.bamM5_ = "" /\ this.filePath_ = that.filePath_)
       \/ this.bamM5_ = that.bamM5_
    /\ this.offset_ = that.offset_
    /\ this.size_ = that.size_
    /\ this.genomicPosition_ = that.genomicPosition_
    /\ this.totalBases_ = that.totalBases_
    /\ this.acgtBases_ = that.acgtBases_
    /\ this.bamSqAs_ = that.bamSqAs_
    /\ this.bamSqUr_ = that.bamSqUr_

\* the values of the uint64_t members, of the MD5 and of the other strings
Sizes == {0, 1}

Md5s == {"", "md5a", "md5b"}

Names == {"one", "other"}

FullContigs ==
    [index_ : 0..MaxContigIndex, name_ : Names, decoy_ : BOOLEAN, filePath_ : Names,
     offset_ : Sizes, size_ : Sizes, genomicPosition_ : Sizes, totalBases_ : Sizes,
     acgtBases_ : Sizes, bamSqAs_ : Names, bamSqUr_ : Names, bamM5_ : Md5s]

\* Contig() with a name
BaseContig ==
    [index_ |-> 0, name_ |-> "one", decoy_ |-> FALSE, filePath_ |-> "one",
     offset_ |-> 0, size_ |-> 0, genomicPosition_ |-> 0, totalBases_ |-> 0,
     acgtBases_ |-> 0, bamSqAs_ |-> "one", bamSqUr_ |-> "one", bamM5_ |-> ""]

\* the left operand varies in the members the two disjuncts read, the right one in all
EqualityArgs ==
    [a : {[BaseContig EXCEPT !.bamM5_ = m, !.filePath_ = f] : m \in Md5s, f \in Names},
     b : FullContigs]

NoEqualityArgs == [a |-> BaseContig, b |-> BaseContig]

NotCompared == [done |-> FALSE, ab |-> FALSE, ba |-> FALSE]

IdleE == eArgs = NoEqualityArgs /\ eRes = NotCompared

\* a == b and b == a are evaluated
CompareContigs ==
    /\ ~eRes.done
    /\ eRes' = [done |-> TRUE, ab |-> ContigEquals(eArgs.a, eArgs.b),
                ba |-> ContigEquals(eArgs.b, eArgs.a)]
    /\ UNCHANGED <<eArgs, wfVars, qVars, sVars, cVars, rVars, bVars, tVars, aVars>>

(***************************************************************************)
(* One call on the object: the members take the values the call leaves,    *)
(* the call is recorded, and a failed assertion ends the process.          *)
(***************************************************************************)
Call(op, to, r) ==
    /\ state_' = r.w.state_
    /\ sortedReferenceMetadataList_' = r.w.sortedReferenceMetadataList_
    /\ contigLists_' = r.w.contigLists_
    /\ foundMatchesMetadata_' = r.w.foundMatchesMetadata_
    /\ selectedMatchesMetadata_' = r.w.selectedMatchesMetadata_
    /\ barcodeTemplateLengthStatistics_' = r.w.barcodeTemplateLengthStatistics_
    /\ barcodeBamMapping_' = r.w.barcodeBamMapping_
    /\ binFiles' = r.w.binFiles
    /\ alive' = (r.outcome # "assert")
    /\ trace' = Append(trace,
                       [op |-> op, to |-> to, from |-> state_, after |-> r.w.state_,
                        outcome |-> r.outcome, ret |-> r.ret, ran |-> r.ran,
                        bins |-> r.bins, visited |-> r.visited,
                        binsBefore |-> binFiles, binsAfter |-> r.w.binFiles])
    /\ UNCHANGED <<qVars, sVars, cVars, rVars, bVars, tVars, aVars, eVars>>

CanCall == alive /\ Len(trace) < MaxCalls

Step ==
    /\ CanCall
    /\ \E ok \in BOOLEAN : Call("step", Invalid, step(This, ok, Len(trace) + 1))

Run ==
    /\ CanCall
    /\ \E oks \in [1..3 -> BOOLEAN] : Call("run", Invalid, run(This, oks, Len(trace) + 1))

CleanupIntermediary ==
    /\ CanCall
    /\ Call("cleanupIntermediary", Invalid, cleanupIntermediary(This))

Rewind ==
    /\ CanCall
    /\ \E to \in RewindTargets : Call("rewind", to, rewind(This, to))

InitQ == InitWorkflow /\ qArgs \in QualityArgs /\ qRes = NoResult /\ IdleS /\ IdleC /\ IdleR /\ IdleB /\ IdleT /\ IdleA /\ IdleE

NextQ == ApplyAlignmentScoreToMapq \/ ApplyPickMapQ \/ ApplyPickMapQFromMate

SpecQ == InitQ /\ [][NextQ]_vars

InitS ==
    InitWorkflow /\ IdleQ /\ sArgs \in ScoringArgs /\ sRes = NoScoringResult /\ IdleC /\ IdleR /\ IdleB /\ IdleT /\ IdleA /\ IdleE

NextS == ApplyIsUnique \/ ApplyComputeAlignmentScore

SpecS == InitS /\ [][NextS]_vars

InitC == InitWorkflow /\ IdleQ /\ IdleS /\ cArgs \in ConstructorArgs /\ cRes = NotConstructed /\ IdleR /\ IdleB /\ IdleT /\ IdleA /\ IdleE

NextC == Construct

SpecC == InitC /\ [][NextC]_vars

InitR == InitWorkflow /\ IdleQ /\ IdleS /\ IdleC /\ rArgs \in ReferenceArgs /\ rRes = NoPosition /\ IdleB /\ IdleT /\ IdleA /\ IdleE

NextR == ApplyGenomicOffsetToPosition

SpecR == InitR /\ [][NextR]_vars

InitB == InitWorkflow /\ IdleQ /\ IdleS /\ IdleC /\ IdleR /\ IdleB /\ IdleT /\ IdleA /\ IdleE

NextB == EnterGenerateBam \/ ExecuteStatement \/ StatementThrows

SpecB == InitB /\ [][NextB]_vars

InitT == InitWorkflow /\ IdleQ /\ IdleS /\ IdleC /\ IdleR /\ IdleB /\ IdleT /\ IdleA /\ IdleE

NextT == AddTileStats

SpecT == InitT /\ [][NextT]_vars

InitA == InitWorkflow /\ IdleQ /\ IdleS /\ IdleC /\ IdleR /\ IdleB /\ IdleT /\ IdleA /\ IdleE

NextA == SetKUniquenessAnnotation \/ SetKRepeatnessAnnotation \/ ClearAnnotations

SpecA == InitA /\ [][NextA]_vars

InitE ==
    /\ InitWorkflow /\ IdleQ /\ IdleS /\ IdleC /\ IdleR /\ IdleB /\ IdleT /\ IdleA
    /\ eArgs \in EqualityArgs /\ eRes = NotCompared

NextE == CompareContigs

SpecE == InitE /\ [][NextE]_vars

Init == InitWorkflow /\ IdleQ /\ IdleS /\ IdleC /\ IdleR /\ IdleB /\ IdleT /\ IdleA /\ IdleE

Next == Step \/ Run \/ CleanupIntermediary \/ Rewind

Spec == Init /\ [][Next]_vars

(***************************************************************************)
(* Vocabulary of the properties: the workflow order, the phase that        *)
(* step() runs in each state, and the phases a recorded call completed.    *)
(***************************************************************************)
WorkflowOrder == <<Start, AlignDone, AlignmentReportsDone, BamDone>>

WorkflowStates == {WorkflowOrder[i] : i \in 1..Len(WorkflowOrder)}

Rank(s) == CHOOSE i \in 1..Len(WorkflowOrder) : WorkflowOrder[i] = s

PhaseOrder == <<"findMatches", "generateAlignmentReports", "generateBam">>

PhaseRank(p) == CHOOSE i \in 1..Len(PhaseOrder) : PhaseOrder[i] = p

Calls == 1..Len(trace)

Failed(e) == e.op \in {"step", "run"} /\ e.outcome = "exception"

\* the phases a recorded call ran to completion
Completed(e) == IF Failed(e) THEN SubSeq(e.ran, 1, Len(e.ran) - 1) ELSE e.ran

RangeOf(q) == {q[i] : i \in 1..Len(q)}

RECURSIVE RanOver(_, _)
\* the phases started by the calls i+1 .. i+n, in order
RanOver(i, n) == IF n = 0 THEN <<>> ELSE RanOver(i, n - 1) \o trace[i + n].ran

(***************************************************************************)
(* C1: a run() called in state Start that returns has executed             *)
(* findMatches, generateAlignmentReports and generateBam exactly once each *)
(* and in that order, state_ going Start, AlignDone, AlignmentReportsDone, *)
(* BamDone, and it returns with state_ = BamDone; no assertion of run()    *)
(* fails when it is called in Start.                                       *)
(***************************************************************************)
C1_RunExecutesThreePhasesInOrder ==
    \A i \in Calls :
        LET e == trace[i] IN
        (e.op = "run" /\ e.from = Start) =>
            /\ e.outcome # "assert"
            /\ e.outcome = "ok" =>
                 /\ e.ran = <<"findMatches", "generateAlignmentReports", "generateBam">>
                 /\ e.visited = <<Start, AlignDone, AlignmentReportsDone, BamDone>>
                 /\ e.after = BamDone
                 /\ (i = Len(trace) => state_ = BamDone)

C1_Witness ==
    /\ trace # <<>>
    /\ trace[Len(trace)].op = "run"
    /\ trace[Len(trace)].from = Start
    /\ trace[Len(trace)].outcome = "ok"
    /\ state_ = BamDone

(***************************************************************************)
(* C2: for every current state S and target T among Start, AlignDone,      *)
(* AlignmentReportsDone, BamDone, rewind(T) succeeds iff T is not later    *)
(* than S; on success state_ becomes T, otherwise the                      *)
(* PreConditionException is raised and state_ stays S.                     *)
(***************************************************************************)
C2_RewindSucceedsIffNotLater ==
    \A i \in Calls :
        LET e == trace[i] IN
        (e.op = "rewind" /\ e.to \in WorkflowStates) =>
            /\ (e.outcome = "ok") <=> (Rank(e.to) <= Rank(e.from))
            /\ e.outcome = "ok" => e.after = e.to
            /\ e.outcome # "ok" => (e.outcome = "exception" /\ e.after = e.from)
            /\ (i = Len(trace) => state_ = e.after)

C2_Witness ==
    /\ \E i \in Calls : /\ trace[i].op = "rewind"
                        /\ trace[i].outcome = "ok"
                        /\ trace[i].from = BamDone
                        /\ trace[i].to = AlignDone
    /\ \E i \in Calls : /\ trace[i].op = "rewind"
                        /\ trace[i].outcome = "exception"
                        /\ trace[i].from = AlignDone
                        /\ trace[i].to = AlignmentReportsDone

(***************************************************************************)
(* C3: a rewind is accepted only when the on-disk artifacts of the target  *)
(* state exist, so that no call runs generateBam after the bin files it    *)
(* reads were removed by cleanupIntermediary(): whenever generateBam is    *)
(* started, the bin files are on disk.                                     *)
(***************************************************************************)
C3_GenerateBamFindsItsBins ==
    \A i \in Calls :
        \A k \in 1..Len(trace[i].bins) : trace[i].bins[k] = TRUE

(***************************************************************************)
(* C4: step() only moves forward. A step() that returns from a             *)
(* non-terminal state S leaves state_ at the immediate successor of S, no  *)
(* step() moves state_ to an earlier state, and a call that moves state_   *)
(* backwards is a rewind().                                                *)
(***************************************************************************)
C4_StepMovesToImmediateSuccessor ==
    \A i \in Calls :
        LET e == trace[i] IN
        /\ (e.op = "step" /\ e.outcome = "ok" /\ e.from # BamDone) =>
               /\ Rank(e.after) = Rank(e.from) + 1
               /\ e.ret = e.after
        /\ e.op = "step" => Rank(e.after) >= Rank(e.from)
        /\ Rank(e.after) < Rank(e.from) => e.op = "rewind"

C4_Witness ==
    \E i, j, k \in Calls :
        /\ trace[i].op = "step" /\ trace[i].from = Start /\ trace[i].after = AlignDone
        /\ trace[j].op = "step" /\ trace[j].from = AlignDone
        /\ trace[j].after = AlignmentReportsDone
        /\ trace[k].op = "step" /\ trace[k].from = AlignmentReportsDone
        /\ trace[k].after = BamDone

(***************************************************************************)
(* C5: when the phase run by step() throws, state_ is not advanced: it     *)
(* stays at the last completed state, a step() called next runs the same   *)
(* phase again, and no later phase is started before the failed phase has  *)
(* completed.                                                              *)
(***************************************************************************)
C5_FailedPhaseDoesNotAdvance ==
    \A i \in Calls :
        LET e == trace[i]
            p == e.ran[Len(e.ran)]
        IN
        Failed(e) =>
            /\ e.after = e.visited[Len(e.visited)]
            /\ e.op = "step" => e.after = e.from
            /\ PhaseRank(p) = Rank(e.after)
            /\ (i = Len(trace) => state_ = e.after)
            /\ (i < Len(trace) /\ trace[i + 1].op = "step") => trace[i + 1].ran = <<p>>
            /\ \A j \in Calls :
                   (j > i /\ \E q \in RangeOf(trace[j].ran) : PhaseRank(q) > PhaseRank(p)) =>
                       \E k \in (i + 1)..j : p \in RangeOf(Completed(trace[k]))

C5_Witness ==
    \E i \in Calls :
        /\ i + 2 <= Len(trace)
        /\ trace[i].op = "step" /\ Failed(trace[i]) /\ trace[i].from = AlignDone
        /\ trace[i + 1].op = "step" /\ trace[i + 1].outcome = "ok"
        /\ trace[i + 2].op = "step" /\ trace[i + 2].ran = <<"generateBam">>

(***************************************************************************)
(* C6: the workflow is resumable. For states S not later than T, a         *)
(* rewind(S) made in T and followed by as many returning step() calls as   *)
(* there are transitions between S and T brings state_ back to T, and      *)
(* those calls have run exactly the phases between S and T, each once and  *)
(* in workflow order.                                                      *)
(***************************************************************************)
C6_RewindThenStepsResume ==
    \A i \in Calls :
        LET e == trace[i]
            n == Rank(e.from) - Rank(e.to)
        IN
        (/\ e.op = "rewind" /\ e.to \in WorkflowStates
         /\ Rank(e.to) <= Rank(e.from)
         /\ i + n <= Len(trace)
         /\ \A k \in (i + 1)..(i + n) : trace[k].op = "step" /\ trace[k].outcome = "ok") =>
            /\ e.outcome = "ok"
            /\ trace[i + n].after = e.from
            /\ RanOver(i, n) = SubSeq(PhaseOrder, Rank(e.to), Rank(e.from) - 1)
            /\ (i + n = Len(trace) => state_ = e.from)

C6_Witness ==
    \E i \in Calls :
        /\ i + 3 = Len(trace)
        /\ trace[i].op = "rewind" /\ trace[i].from = BamDone /\ trace[i].to = Start
        /\ \A k \in (i + 1)..(i + 3) : trace[k].op = "step" /\ trace[k].outcome = "ok"
        /\ state_ = BamDone

(***************************************************************************)
(* C7, as the code has it: the workflow has four distinct states, visited  *)
(* in the linear order Start, AlignDone, AlignmentReportsDone, BamDone, so *)
(* that a complete run() from Start to BamDone consists of three phase     *)
(* transitions.                                                            *)
(***************************************************************************)
C7_FourStatesThreeTransitions ==
    /\ state_ \in WorkflowStates
    /\ Cardinality(WorkflowStates) = 4
    /\ \A i \in Calls :
           LET e == trace[i] IN
           /\ RangeOf(e.visited) \subseteq WorkflowStates
           /\ e.op \in {"step", "run"} =>
                  \A k \in 1..(Len(e.visited) - 1) :
                      WorkflowOrder[Rank(e.visited[k]) + 1] = e.visited[k + 1]
           /\ (e.op = "run" /\ e.outcome = "ok") =>
                  /\ Cardinality(RangeOf(e.visited)) = 4
                  /\ Len(e.visited) - 1 = 3
                  /\ Len(e.ran) = 3

C7_Witness ==
    \E i \in Calls : trace[i].op = "run" /\ trace[i].outcome = "ok" /\ trace[i].after = BamDone

(***************************************************************************)
(* C7 as stated: five distinct states visited in linear order, a complete  *)
(* run from Start consisting of four phase transitions.                    *)
(***************************************************************************)
C7_FiveStatesFourTransitions ==
    \A i \in Calls :
        LET e == trace[i] IN
        (e.op = "run" /\ e.outcome = "ok") =>
            /\ Cardinality(RangeOf(e.visited)) = 5
            /\ Len(e.ran) = 4

(***************************************************************************)
(* Vocabulary of the properties of Quality.hh: the order of the numbers    *)
(* that the <<high, low>> pairs stand for, and 2^32 - 1 written out.       *)
(***************************************************************************)
Leq(a, b) == a[1] < b[1] \/ (a[1] = b[1] /\ a[2] <= b[2])

MathMin(a, b) == IF Leq(a, b) THEN a ELSE b

MathMax(a, b) == IF Leq(a, b) THEN b ELSE a

Unknown32 == <<65535, 65535>>

ValidScores ==
    /\ qArgs.alignmentScore # Unknown32
    /\ qArgs.mateAlignmentScore # Unknown32
    /\ qArgs.templateAlignmentScore # Unknown32

(***************************************************************************)
(* C8: every mapping quality returned by alignmentScoreToMapq, pickMapQ    *)
(* and pickMapQFromMate lies in [0, 60], for all alignment scores other    *)
(* than UNKNOWN_ALIGNMENT_SCORE and all mate MAPQ bytes other than 255,    *)
(* mate MAPQ values 61..254 included.                                      *)
(***************************************************************************)
C8_MapqWithinZeroToSixty ==
    /\ qRes.outcome = "ok" => qRes.value \in 0..60
    /\ (qRes.fn = "alignmentScoreToMapq" /\ qArgs.alignmentScore # Unknown32) =>
           qRes.outcome = "ok"
    /\ (qRes.fn = "pickMapQ" /\ ValidScores) => qRes.outcome = "ok"
    /\ (qRes.fn = "pickMapQFromMate" /\ qArgs.mateMapQ # 255
            /\ qArgs.templateAlignmentScore # Unknown32) => qRes.outcome = "ok"

C8_Witness ==
    /\ qRes.fn = "pickMapQFromMate"
    /\ qRes.outcome = "ok"
    /\ qArgs.mateMapQ = 254
    /\ qArgs.templateAlignmentScore = <<65535, 65534>>
    /\ qRes.value = 60

(***************************************************************************)
(* C9: for all scores other than UNKNOWN_ALIGNMENT_SCORE, pickMapQ returns *)
(* min(60, max(fragmentScore, min(templateScore, mateFragmentScore))) when *)
(* properPair is true and min(60, fragmentScore) when it is false.         *)
(***************************************************************************)
C9_PickMapQFormula ==
    (qRes.fn = "pickMapQ" /\ ValidScores) =>
        /\ qRes.outcome = "ok"
        /\ <<0, qRes.value>> =
               IF qArgs.properPair
               THEN MathMin(<<0, 60>>,
                            MathMax(qArgs.alignmentScore,
                                    MathMin(qArgs.templateAlignmentScore,
                                            qArgs.mateAlignmentScore)))
               ELSE MathMin(<<0, 60>>, qArgs.alignmentScore)

C9_Witness ==
    /\ qRes.fn = "pickMapQ"
    /\ qRes.outcome = "ok"
    /\ qArgs.properPair
    /\ qArgs.alignmentScore = <<0, 3>>
    /\ qArgs.templateAlignmentScore = <<0, 61>>
    /\ qArgs.mateAlignmentScore = <<0, 59>>
    /\ qRes.value = 59

(***************************************************************************)
(* C10: for every mate MAPQ other than 255 and every template score other  *)
(* than UNKNOWN_ALIGNMENT_SCORE, pickMapQFromMate returns                  *)
(* min(min(60, templateScore), mateMapQ), so that the MAPQ of a shadow     *)
(* never exceeds the MAPQ of its mate.                                     *)
(***************************************************************************)
C10_PickMapQFromMateFormula ==
    (qRes.fn = "pickMapQFromMate" /\ qArgs.mateMapQ # 255
        /\ qArgs.templateAlignmentScore # Unknown32) =>
        /\ qRes.outcome = "ok"
        /\ <<0, qRes.value>> =
               MathMin(MathMin(<<0, 60>>, qArgs.templateAlignmentScore), <<0, qArgs.mateMapQ>>)
        /\ qRes.value <= qArgs.mateMapQ

C10_Witness ==
    /\ qRes.fn = "pickMapQFromMate"
    /\ qRes.outcome = "ok"
    /\ qArgs.mateMapQ = 3
    /\ qArgs.templateAlignmentScore = <<0, 316>>
    /\ qRes.value = 3

(***************************************************************************)
(* C11: isUnique(alignmentScore) is true if and only if alignmentScore > 3 *)
(* (REPEAT_ALIGNMENT_SCORE), for every unsigned alignment score.           *)
(***************************************************************************)
C11_IsUniqueIffAboveThree ==
    sRes.fn = "isUnique" =>
        /\ sRes.score = sArgs.alignmentScore
        /\ sRes.unique <=> ~Leq(sArgs.alignmentScore, <<0, 3>>)

C11_Witness ==
    /\ sRes.fn = "isUnique"
    /\ sArgs.alignmentScore = <<0, 4>>
    /\ sRes.unique

(***************************************************************************)
(* C12: for a read with exactly two candidate alignments of equal          *)
(* probability p > 0 (alignmentProbability = otherAlignmentsProbability =  *)
(* p) and a rest-of-genome correction R with 0 <= R <= p / 1000,           *)
(* computeAlignmentScore returns exactly 3, so the MAPQ is 3 and isUnique  *)
(* is false.                                                               *)
(***************************************************************************)
C12_TwoEqualCandidatesScoreThree ==
    (/\ sRes.fn = "computeAlignmentScore"
     /\ sArgs.alignmentProbability = sArgs.otherAlignmentsProbability
     /\ 1000 * sArgs.restOfGenomeCorrection <= sArgs.alignmentProbability) =>
        /\ sRes.score = <<0, 3>>
        /\ alignmentScoreToMapq(sRes.score) = [outcome |-> "ok", value |-> 3]
        /\ ~sRes.unique
        /\ ~isUnique(sRes.score)

C12_Witness ==
    /\ sRes.fn = "computeAlignmentScore"
    /\ sArgs.alignmentProbability = sArgs.otherAlignmentsProbability
    /\ sArgs.restOfGenomeCorrection = 1
    /\ 1000 * sArgs.restOfGenomeCorrection <= sArgs.alignmentProbability
    /\ sRes.score = <<0, 3>>

(***************************************************************************)
(* C13: cleanupIntermediary() removes the intermediary bin files only when *)
(* the workflow is in the terminal state BamDone; called in Start,         *)
(* AlignDone or AlignmentReportsDone it removes nothing, and in every      *)
(* state it leaves state_ unchanged and ends no process.                   *)
(***************************************************************************)
C13_CleanupOnlyInTerminalState ==
    \A i \in Calls :
        LET e == trace[i] IN
        e.op = "cleanupIntermediary" =>
            /\ e.outcome = "ok"
            /\ e.after = e.from
            /\ e.ran = <<>>
            /\ e.from = BamDone => e.binsAfter = FALSE
            /\ e.from \in {Start, AlignDone, AlignmentReportsDone} => e.binsAfter = e.binsBefore
            /\ (i = Len(trace) => state_ = e.from /\ binFiles = e.binsAfter)

C13_Witness ==
    \E i, j \in Calls :
        /\ trace[i].op = "cleanupIntermediary" /\ trace[i].from = AlignmentReportsDone
        /\ trace[i].binsBefore /\ trace[i].binsAfter
        /\ trace[j].op = "cleanupIntermediary" /\ trace[j].from = BamDone
        /\ trace[j].binsBefore /\ ~trace[j].binsAfter

(***************************************************************************)
(* C14: the reference data loaded by the constructor (the sorted reference *)
(* metadata and the contig lists) is immutable afterwards: no sequence of  *)
(* run(), step(), rewind() and cleanupIntermediary() calls modifies it,    *)
(* the phases being given it read-only.                                    *)
(***************************************************************************)
C14_ReferenceDataImmutable ==
    /\ sortedReferenceMetadataList_ = "sortedReferenceMetadataList"
    /\ contigLists_ = "contigLists"

C14_Witness ==
    /\ \E i \in Calls : trace[i].ran = <<"findMatches">> /\ trace[i].outcome = "ok"
    /\ \E i \in Calls : trace[i].ran = <<"generateAlignmentReports">> /\ trace[i].outcome = "ok"
    /\ \E i \in Calls : trace[i].ran = <<"generateBam">> /\ trace[i].outcome = "ok"
    /\ \E i \in Calls : trace[i].op = "cleanupIntermediary" /\ trace[i].from = BamDone
    /\ \E i \in Calls : trace[i].op = "rewind" /\ trace[i].outcome = "ok"
    /\ sortedReferenceMetadataList_ = "sortedReferenceMetadataList"
    /\ contigLists_ = "contigLists"

\* phase p was completed before the k-th phase of call i was started
CompletedBefore(p, i, k) ==
    \/ \E j \in 1..(i - 1) : p \in RangeOf(Completed(trace[j]))
    \/ \E m \in 1..(k - 1) : trace[i].ran[m] = p

(***************************************************************************)
(* C17: over every sequence of calls starting from a newly constructed     *)
(* workflow, each execution of generateBam is preceded by a completed      *)
(* findMatches and a completed generateAlignmentReports, and each          *)
(* execution of generateAlignmentReports by a completed findMatches.       *)
(***************************************************************************)
C17_PhasesPrecededByEarlierPhases ==
    \A i \in Calls :
        \A k \in 1..Len(trace[i].ran) :
            /\ trace[i].ran[k] = "generateBam" =>
                   /\ CompletedBefore("findMatches", i, k)
                   /\ CompletedBefore("generateAlignmentReports", i, k)
            /\ trace[i].ran[k] = "generateAlignmentReports" =>
                   CompletedBefore("findMatches", i, k)

C17_Witness ==
    \E i \in Calls :
        /\ i >= 4
        /\ trace[i].op = "step" /\ trace[i].ran = <<"generateBam">>
        /\ trace[i - 1].op = "rewind" /\ trace[i - 1].outcome = "ok"
        /\ trace[i - 1].from = BamDone /\ trace[i - 1].to = AlignmentReportsDone

(***************************************************************************)
(* C18: step() in the terminal state BamDone is idempotent: it runs none   *)
(* of findMatches, generateAlignmentReports, generateBam, returns the      *)
(* terminal state and leaves state_ unchanged, however many times it is    *)
(* repeated.                                                               *)
(***************************************************************************)
C18_StepInTerminalStateIdempotent ==
    \A i \in Calls :
        LET e == trace[i] IN
        (e.op = "step" /\ e.from = BamDone) =>
            /\ e.outcome = "ok"
            /\ e.ran = <<>>
            /\ e.ret = BamDone
            /\ e.after = BamDone
            /\ e.binsAfter = e.binsBefore
            /\ (i = Len(trace) => state_ = BamDone)

C18_Witness ==
    \E i \in Calls :
        /\ i + 2 <= Len(trace)
        /\ \A k \in i..(i + 2) : trace[k].op = "step" /\ trace[k].from = BamDone
        /\ state_ = BamDone

(***************************************************************************)
(* C19: every rewind(to) call that returns, rewind(Last) included (it      *)
(* leaves state_ unchanged), returns the state the workflow was in         *)
(* immediately before the call, not the state it rewound to.               *)
(***************************************************************************)
C19_RewindReturnsPreviousState ==
    \A i \in Calls :
        LET e == trace[i] IN
        (e.op = "rewind" /\ e.outcome = "ok") =>
            /\ e.ret = e.from
            /\ e.to = Last => e.after = e.from
            /\ (i > 1 => e.ret = trace[i - 1].after)

C19_Witness ==
    \E i, j \in Calls :
        /\ trace[i].op = "rewind" /\ trace[i].outcome = "ok"
        /\ trace[i].from = BamDone /\ trace[i].to = Start /\ trace[i].ret = BamDone
        /\ trace[j].op = "rewind" /\ trace[j].outcome = "ok" /\ trace[j].to = Last
        /\ trace[j].from = AlignDone

C15_ConstructorBinTargets ==
    (cRes.outcome = "ok" /\ cArgs.targetBinSize # 0) =>
        LET quotient == CHOOSE q \in 0..cArgs.targetBinSize :
                            /\ q * cArgs.estimatedFragmentSize <= cArgs.targetBinSize
                            /\ cArgs.targetBinSize < (q + 1) * cArgs.estimatedFragmentSize
            perCoverage == CHOOSE q \in 0..quotient :
                               /\ q * cArgs.expectedCoverage <= quotient
                               /\ quotient < (q + 1) * cArgs.expectedCoverage
        IN  /\ cRes.targetFragmentsPerBin_ = quotient
            /\ cRes.targetBinLength_ = perCoverage * cArgs.maxReadLength
            /\ cRes.targetBinSize_ = cArgs.targetBinSize

\* the constructor has run on values where dividing first loses a remainder
C15_Witness ==
    /\ cRes.outcome = "ok"
    /\ cArgs.targetBinSize = 7 /\ cArgs.estimatedFragmentSize = 2
    /\ cArgs.expectedCoverage = 2 /\ cArgs.maxReadLength = 2
    /\ cRes.targetFragmentsPerBin_ = 3
    /\ cRes.targetBinLength_ = 2
    /\ cRes.targetBinSize_ = 7

\* the contigs of the list do not overlap
NonOverlapping(contigList) ==
    \A i \in 1..(Len(contigList) - 1) :
        contigList[i].genomicPosition_ + contigList[i].totalBases_
            <= contigList[i + 1].genomicPosition_

\* the last contig of the list with genomicPosition_ <= offset
LastContigAtOrBelow(contigList, offset) ==
    contigList[CHOOSE i \in 1..Len(contigList) :
                   /\ contigList[i].genomicPosition_ <= offset
                   /\ \A j \in (i + 1)..Len(contigList) :
                          ~(contigList[j].genomicPosition_ <= offset)]

\* C16: for an offset not below the first contig's genomicPosition_,
\* genomicOffsetToPosition returns (c.index_, offset - c.genomicPosition_) for the last
\* contig c with genomicPosition_ <= offset when that difference is below c.totalBases_
\* and NoMatch otherwise; in a non-overlapping list c.genomicPosition_ + o with
\* o < c.totalBases_ maps back to (c.index_, o)
C16_GenomicOffsetToPosition ==
    LET list == rArgs.contigList
        offset == rArgs.genomicOffset
    IN  (/\ rRes.outcome # "none"
         /\ Len(list) > 0
         /\ list[1].genomicPosition_ <= offset) =>
            /\ LET c == LastContigAtOrBelow(list, offset) IN
               IF offset - c.genomicPosition_ < c.totalBases_
               THEN rRes = [outcome |-> "position", contigId |-> c.index_,
                            position |-> offset - c.genomicPosition_]
               ELSE rRes.outcome = "NoMatch"
            /\ NonOverlapping(list) =>
                   \A i \in 1..Len(list) : \A o \in 0..(list[i].totalBases_ - 1) :
                       offset = list[i].genomicPosition_ + o =>
                           rRes = [outcome |-> "position", contigId |-> list[i].index_,
                                   position |-> o]

\* the first base of the second of three non-overlapping contigs has been mapped back
C16_Witness ==
    /\ Len(rArgs.contigList) = 3
    /\ NonOverlapping(rArgs.contigList)
    /\ rArgs.contigList[2].totalBases_ > 0
    /\ rArgs.contigList[2].index_ = 0
    /\ rArgs.genomicOffset = rArgs.contigList[2].genomicPosition_
    /\ rRes = [outcome |-> "position", contigId |-> 0, position |-> 0]

\* the calls i .. i+k-1 are step() calls whose phases, if any, all completed
StepsCompleted(i, k) ==
    /\ i + k - 1 <= Len(trace)
    /\ \A j \in i..(i + k - 1) : trace[j].op = "step" /\ trace[j].outcome = "ok"

\* C21: from every reachable state, consecutive step() calls none of whose phases fails
\* have brought the workflow to BamDone once there are as many of them as states remain
\* ahead, which is at most three; further step() calls leave it in BamDone
C21_StepsReachBamDoneAndStay ==
    \A i \in Calls :
        /\ \A k \in 1..3 :
               (StepsCompleted(i, k) /\ k >= Len(WorkflowOrder) - Rank(trace[i].from)) =>
                   trace[i + k - 1].after = BamDone
        /\ (trace[i].op = "step" /\ trace[i].from = BamDone) =>
               trace[i].outcome = "ok" /\ trace[i].after = BamDone

\* three step() calls from Start have reached BamDone and a fourth one has stayed there
C21_Witness ==
    /\ StepsCompleted(1, 4)
    /\ trace[1].from = Start
    /\ trace[2].after = AlignmentReportsDone
    /\ trace[3].after = BamDone
    /\ trace[4].from = BamDone /\ trace[4].after = BamDone

\* C22: whatever calls were made, state_ is one of Start, AlignDone,
\* AlignmentReportsDone, BamDone, never Invalid or Last, and the default branches of
\* step(), getNextState() and cleanupIntermediary() are never reached: state_ never
\* goes through a value outside the four, step() and cleanupIntermediary() never fail
\* an assertion, and the only assertion run() fails is its own, made before any step()
C22_StateAlwaysOneOfFour ==
    /\ state_ \in WorkflowStates
    /\ state_ \notin {Invalid, Last}
    /\ \A i \in Calls :
           LET e == trace[i] IN
           /\ e.after \in WorkflowStates
           /\ RangeOf(e.visited) \subseteq WorkflowStates
           /\ e.op \in {"step", "cleanupIntermediary"} => e.outcome # "assert"
           /\ (e.op = "run" /\ e.outcome = "assert") => (e.from # Start /\ e.ran = <<>>)

\* all four operations have been called, rewind(Last) among them
C22_Witness ==
    /\ \A op \in {"run", "step", "rewind", "cleanupIntermediary"} :
           \E i \in Calls : trace[i].op = op /\ trace[i].outcome = "ok"
    /\ \E i \in Calls : trace[i].op = "rewind" /\ trace[i].to = Last
    /\ state_ = BamDone

\* C23: rewind() changes nothing but state_: the found-matches metadata, the bin
\* metadata list, the template length statistics, the barcode-to-BAM mapping and the
\* files on disk are as they were before the call
C23_RewindChangesOnlyState ==
    [][(Len(trace') = Len(trace) + 1 /\ trace'[Len(trace')].op = "rewind") =>
           UNCHANGED <<foundMatchesMetadata_, selectedMatchesMetadata_,
                       barcodeTemplateLengthStatistics_, barcodeBamMapping_, binFiles,
                       sortedReferenceMetadataList_, contigLists_>>]_vars

\* after run() and a rewind to AlignmentReportsDone, step() has run generateBam again
\* with the bin metadata list that the findMatches of run() produced
C23_Witness ==
    /\ Len(trace) = 3
    /\ trace[1].op = "run" /\ trace[1].outcome = "ok"
    /\ trace[2].op = "rewind" /\ trace[2].to = AlignmentReportsDone /\ trace[2].outcome = "ok"
    /\ trace[3].op = "step" /\ trace[3].ran = <<"generateBam">> /\ trace[3].outcome = "ok"
    /\ selectedMatchesMetadata_ = 1
    /\ barcodeTemplateLengthStatistics_ = 1
    /\ barcodeBamMapping_ = 3

\* what generateBam did just before and just after the i-th thing it did
DidBefore(i) == IF i > 1 THEN bamLog[i - 1] ELSE Did("nothing", FALSE)

DidAfter(i) == IF i < Len(bamLog) THEN bamLog[i + 1] ELSE Did("nothing", FALSE)

\* C24: in generateBam the ScopedMallocBlock guard is held for the whole of build.run
\* and for nothing else: it is acquired after the Build object is constructed and
\* right before build.run, released right after build.run whether build.run returned
\* or threw, and so before build.dumpStats writes BuildStats.xml
C24_MallocBlockHeldForBuildRunOnly ==
    /\ \A i \in 1..Len(bamLog) :
           LET e == bamLog[i] IN
           /\ e.did = "ScopedMallocBlock" =>
                  /\ DidBefore(i) = Did("Build", FALSE)
                  /\ i < Len(bamLog) => DidAfter(i).did = "build.run"
           /\ e.did = "build.run" =>
                  /\ DidBefore(i) = Did("ScopedMallocBlock", FALSE)
                  /\ i < Len(bamLog) => DidAfter(i) = Did("~ScopedMallocBlock", FALSE)
           /\ e.did = "~ScopedMallocBlock" => DidBefore(i).did = "build.run"
           /\ e.did = "build.dumpStats" => DidBefore(i) = Did("~ScopedMallocBlock", FALSE)
    /\ MallocBlockHeld <=>
           /\ bamLog # <<>>
           /\ bamLog[Len(bamLog)] \in {Did("ScopedMallocBlock", FALSE), Did("build.run", FALSE)}
    /\ bamPc = 0 => ~MallocBlockHeld

\* one call of generateBam has returned after writing the statistics and in another
\* one build.run has thrown, the guard being released in both
C24_Witness ==
    /\ \E i \in 1..Len(bamLog) :
           /\ bamLog[i] = Did("build.run", TRUE)
           /\ DidAfter(i) = Did("~ScopedMallocBlock", FALSE)
    /\ \E i \in 1..Len(bamLog) :
           /\ bamLog[i] = Did("build.dumpStats", FALSE)
           /\ DidAfter(i) = Did("return", FALSE)
    /\ bamPc = 0
    /\ ~MallocBlockHeld

\* what pickMapQ returns on the scores of qArgs with the given properPair
PickMapQWith(properPair) ==
    IF qArgs.properPair = properPair THEN qRes
    ELSE pickMapQ(qArgs.alignmentScore, qArgs.mateAlignmentScore, properPair,
                  qArgs.templateAlignmentScore)

\* C25: in a proper pair a non-unique fragment is rescued only by a unique mate and a
\* unique pair: for all scores other than UNKNOWN_ALIGNMENT_SCORE, if the fragment
\* score is <= 3 and pickMapQ with properPair true is > 3 then the mate score and the
\* template score are both > 3; and pickMapQ with properPair true is never below
\* pickMapQ with properPair false on the same scores
C25_RescueNeedsUniqueMateAndPair ==
    (qRes.fn = "pickMapQ" /\ ValidScores) =>
        /\ qRes.outcome = "ok"
        /\ (qArgs.properPair /\ Leq(qArgs.alignmentScore, <<0, 3>>) /\ qRes.value > 3) =>
               /\ ~Leq(qArgs.mateAlignmentScore, <<0, 3>>)
               /\ ~Leq(qArgs.templateAlignmentScore, <<0, 3>>)
        /\ PickMapQWith(TRUE).outcome = "ok"
        /\ PickMapQWith(FALSE).outcome = "ok"
        /\ PickMapQWith(TRUE).value >= PickMapQWith(FALSE).value

\* a fragment of score 2 has been rescued to MAPQ 4 by a mate of score 4 in a pair of
\* score 61, above the MAPQ 2 it has without a proper pair
C25_Witness ==
    /\ qRes.fn = "pickMapQ"
    /\ qRes.outcome = "ok"
    /\ qArgs.properPair
    /\ qArgs.alignmentScore = <<0, 2>>
    /\ qArgs.mateAlignmentScore = <<0, 4>>
    /\ qArgs.templateAlignmentScore = <<0, 61>>
    /\ qRes.value = 4
    /\ PickMapQWith(FALSE).value = 2

\* C27: alignmentScoreToMapq and pickMapQ fail an assertion when a score argument is
\* UNKNOWN_ALIGNMENT_SCORE (2^32-1), pickMapQFromMate fails an assertion when mateMapQ
\* is 255 or templateAlignmentScore is UNKNOWN_ALIGNMENT_SCORE, and none of them ever
\* returns 255
C27_UnknownInputsRejected ==
    /\ (qRes.fn = "alignmentScoreToMapq" /\ qArgs.alignmentScore = Unknown32) =>
           qRes.outcome = "assert"
    /\ (qRes.fn = "pickMapQ" /\ ~ValidScores) => qRes.outcome = "assert"
    /\ (qRes.fn = "pickMapQFromMate"
            /\ (qArgs.mateMapQ = 255 \/ qArgs.templateAlignmentScore = Unknown32)) =>
           qRes.outcome = "assert"
    /\ qRes.outcome = "ok" => qRes.value # 255

\* pickMapQFromMate has been given a mate MAPQ of 255 with a known template score
C27_Witness ==
    /\ qRes.fn = "pickMapQFromMate"
    /\ qArgs.mateMapQ = 255
    /\ qArgs.templateAlignmentScore = <<0, 61>>
    /\ qRes.outcome = "assert"

\* C26: a fragment whose competing candidates have at least its own probability is
\* never unique: for alignmentProbability a > 0, otherAlignmentsProbability o >= a and
\* restOfGenomeCorrection R >= 0, computeAlignmentScore(R, a, o) <= 3 and isUnique of
\* that score is false
C26_CompetingCandidatesNeverUnique ==
    (/\ sRes.fn = "computeAlignmentScore"
     /\ sArgs.alignmentProbability > 0
     /\ sArgs.otherAlignmentsProbability >= sArgs.alignmentProbability
     /\ sArgs.restOfGenomeCorrection >= 0) =>
        /\ Leq(sRes.score, <<0, 3>>)
        /\ ~sRes.unique
        /\ ~isUnique(sRes.score)

\* candidates of twice the probability of the fragment have given it the score 1
C26_Witness ==
    /\ sRes.fn = "computeAlignmentScore"
    /\ sArgs.alignmentProbability = 1
    /\ sArgs.otherAlignmentsProbability = 2
    /\ sArgs.restOfGenomeCorrection = 0
    /\ sRes.score = <<0, 1>>
    /\ ~sRes.unique

\* C28: a fragment whose alignment score is unknown is never classified as unique:
\* isUnique(UNKNOWN_ALIGNMENT_SCORE) is false, UNKNOWN_ALIGNMENT_SCORE being the
\* unsigned 32-bit value -1U
C28_UnknownScoreNotUnique ==
    (sRes.fn = "isUnique" /\ sArgs.alignmentScore = Unknown32) => ~sRes.unique

\* the five counters
Counters ==
    {"uniqueMatchSeeds_", "noMatchSeeds_", "repeatMatchSeeds_", "tooManyRepeatsSeeds_",
     "repeatMatches_"}

\* the number a such that a + b = r modulo 2^64, by subtraction with borrow
MinusModulo64(r, b) ==
    LET d0 == r[4] - b[4]
        d1 == r[3] - b[3] - (IF d0 < 0 THEN 1 ELSE 0)
        d2 == r[2] - b[2] - (IF d1 < 0 THEN 1 ELSE 0)
        d3 == r[1] - b[1] - (IF d2 < 0 THEN 1 ELSE 0)
    IN  <<(d3 + Half) % Half, (d2 + Half) % Half, (d1 + Half) % Half, (d0 + Half) % Half>>

\* the orders in which the tiles combined so far can be taken
TileOrders ==
    {order \in [1..Len(tiles) -> 1..Len(tiles)] :
        \A i, j \in 1..Len(tiles) : order[i] = order[j] => i = j}

RECURSIVE CombinedInOrder(_, _)
\* the first n tiles of the order, combined from the left starting from all zeros
CombinedInOrder(order, n) ==
    IF n = 0 THEN MatchFinderTileStats
    ELSE operatorPlus(CombinedInOrder(order, n - 1), tiles[order[n]])

RECURSIVE CombinedFromTheRight(_)
\* t[i] + (t[i+1] + (... + t[n]))
CombinedFromTheRight(i) ==
    IF i = Len(tiles) THEN tiles[i]
    ELSE operatorPlus(tiles[i], CombinedFromTheRight(i + 1))

\* C29: adding two MatchFinderTileStats adds each of the five counters independently
\* modulo 2^64; the addition is commutative and associative, the default-constructed
\* value is its identity, and the total over tiles does not depend on the order in
\* which the per-tile statistics are combined
C29_TileStatsAdditionIsCounterwise ==
    Len(tiles) > 0 =>
        LET n == Len(tiles)
            before == CombinedInOrder([i \in 1..n |-> i], n - 1)
        IN  /\ \A c \in Counters : MinusModulo64(total[c], tiles[n][c]) = before[c]
            /\ \A i, j \in 1..n :
                   operatorPlus(tiles[i], tiles[j]) = operatorPlus(tiles[j], tiles[i])
            /\ \A i \in 1..n :
                   /\ operatorPlus(MatchFinderTileStats, tiles[i]) = tiles[i]
                   /\ operatorPlus(tiles[i], MatchFinderTileStats) = tiles[i]
            /\ CombinedFromTheRight(1) = total
            /\ \A order \in TileOrders : CombinedInOrder(order, n) = total

\* three tiles have been combined, the unique seed counts 65535, 2^64 - 1 and 1 giving
\* 65535 after a wrap, the other counters differing from it
C29_Witness ==
    /\ Len(tiles) = 3
    /\ tiles[1].uniqueMatchSeeds_ = <<0, 0, 0, 65535>>
    /\ tiles[2].uniqueMatchSeeds_ = <<65535, 65535, 65535, 65535>>
    /\ tiles[3].uniqueMatchSeeds_ = <<0, 0, 0, 1>>
    /\ total.uniqueMatchSeeds_ = <<0, 0, 0, 65535>>
    /\ total.noMatchSeeds_ = <<0, 1, 0, 2>>
    /\ total.repeatMatches_ = <<0, 0, 0, 6>>

\* the calls that set the annotation of a type
Setter(type) ==
    IF type = KUniqueness THEN "setKUniquenessAnnotation" ELSE "setKRepeatnessAnnotation"

\* the calls of the setter of the type made since the last clearAnnotations
SetSinceClear(type) ==
    {i \in 1..Len(annotationCalls) :
        /\ annotationCalls[i].op = Setter(type)
        /\ \A j \in (i + 1)..Len(annotationCalls) : annotationCalls[j].op # "clearAnnotations"}

\* C30: after any sequence of setKUniquenessAnnotation, setKRepeatnessAnnotation and
\* clearAnnotations calls the reference metadata holds at most one annotation of each
\* type; hasKUniquenessAnnotation / hasKRepeatnessAnnotation is true exactly when the
\* type was set since the last clearAnnotations, the getter returns the path and k of
\* the most recent set of that type, and setting one type never changes the other
C30_OneAnnotationPerType ==
    /\ \A i \in 1..Len(annotationFiles_) : annotationFiles_[i].type_ \in {KUniqueness, KRepeatness}
    /\ \A type \in {KUniqueness, KRepeatness} :
           LET has == IF type = KUniqueness THEN hasKUniquenessAnnotation(annotationFiles_)
                      ELSE hasKRepeatnessAnnotation(annotationFiles_)
               got == IF type = KUniqueness THEN getKUniquenessAnnotation(annotationFiles_)
                      ELSE getKRepeatnessAnnotation(annotationFiles_)
               sets == SetSinceClear(type)
           IN  /\ Cardinality({i \in 1..Len(annotationFiles_) :
                                  annotationFiles_[i].type_ = type}) <= 1
               /\ has <=> sets # {}
               /\ sets # {} =>
                      LET last == annotationCalls[CHOOSE i \in sets : \A j \in sets : j <= i]
                      IN  got = [outcome |-> "ok",
                                 value |-> [type_ |-> type, path_ |-> last.path, k_ |-> last.k]]
               /\ sets = {} => got.outcome = "assert"

\* the k-uniqueness annotation has been set, then the k-repeatness one, then the
\* k-uniqueness one again with another path and k: two annotations are held
C30_Witness ==
    /\ Len(annotationCalls) = 3
    /\ annotationCalls[1] = [op |-> "setKUniquenessAnnotation", path |-> "first.dat", k |-> 1]
    /\ annotationCalls[2] = [op |-> "setKRepeatnessAnnotation", path |-> "first.dat", k |-> 1]
    /\ annotationCalls[3] = [op |-> "setKUniquenessAnnotation", path |-> "second.dat", k |-> 2]
    /\ Len(annotationFiles_) = 2
    /\ getKUniquenessAnnotation(annotationFiles_).value.path_ = "second.dat"
    /\ getKUniquenessAnnotation(annotationFiles_).value.k_ = 2
    /\ getKRepeatnessAnnotation(annotationFiles_).value.k_ = 1

\* C31: equality of reference contigs is symmetric: for all contigs a and b, a == b
\* holds if and only if b == a, including when exactly one of them has an empty MD5
\* (bamM5_) and both have the same file path
C31_ContigEqualitySymmetric ==
    eRes.done => (eRes.ab <=> eRes.ba)

\* C32: the target bin length computed by the constructor is at least one base for
\* every configuration with expectedCoverage >= 1, maxReadLength >= 1 and
\* targetBinSize >= estimatedFragmentSize
C32_TargetBinLengthAtLeastOne ==
    (/\ cRes.outcome = "ok"
     /\ cArgs.expectedCoverage >= 1
     /\ cArgs.maxReadLength >= 1
     /\ cArgs.targetBinSize >= cArgs.estimatedFragmentSize) =>
        cRes.targetBinLength_ >= 1

====
